---- MODULE Spec2Model ----
(***************************************************************************)
(* SkyBin renter: the storage manager (freelist cache of contracted free   *)
(* space, offline-provider tracking, shard placement) and the download     *)
(* pipeline (fetch k-of-n, reconstruct, strip padding, decrypt,            *)
(* decompress), modelled from the Go sources.                              *)
(*                                                                         *)
(* Six specifications share the variables:                                 *)
(*   SpecSM  - the storage manager's public operations, each atomic        *)
(*             (they run under sm.mu), with the clock as an input;         *)
(*   SpecDL  - one single-file download, one step per block fetch and one  *)
(*             per stage of finishDownload;                                *)
(*   SpecMC  - the metaserver client: the authorization handshake and the  *)
(*             typed directory calls.                                      *)
(*   SpecCC  - the storage manager under two concurrent callers, the lock, *)
(*             the reads, the writes and the unlock as separate steps;     *)
(*   SpecDD  - Renter.Download: the choice of the version of a file, and   *)
(*             the download of a folder child by child;                    *)
(*   SpecMS  - the metaserver's handler of POST /renters, one request at   *)
(*             a time.                                                     *)
(* A specification leaves the variables of the other parts at rest.        *)
(***************************************************************************)
EXTENDS Integers, Sequences, FiniteSets, TLC

VARIABLES
    \* ---- storageManager (src/unnamed/part_000) ----
    freelist,         \* sm.freelist: sequence of storage blobs
    offlinePvdrs,     \* sm.offlinePvdrs: provider id -> release time
    lastCacheUpdate,  \* sm.lastCacheUpdate
    now,              \* sm.clock.Now()
    ret,              \* what the last public call was given and returned
    release,          \* history: per provider, the latest `until` still ahead it was marked with
    \* ---- one upload and one download of it (src/renter/download.go) ----
    pc,               \* where the pipeline stands
    plain,            \* the local file that is uploaded
    coding,           \* <<k, m>>: data and parity blocks of the version
    aes,              \* <<key, iv>> drawn for the file
    caller,           \* r.Config.RenterId of the downloading renter
    file,             \* the file record on the metaserver, with its one version
    stored,           \* the block bytes the providers hold, in coding order
    delivered,        \* what the provider of each attempted block sent
    successes,        \* performFileDownload's counters
    failures,
    blockFiles,       \* performFileDownload's blockFiles, nil as [ok |-> FALSE]
    blockInfos,       \* the BlockId and Error of each BlockDownloadInfo
    shards,           \* finishDownload's blockFiles once reconstruction is over
    reconstructed,    \* whether decoder.Reconstruct ran
    keys,             \* the wrapped and the unwrapped key and IV chosen for decryption
    temp2,            \* the decrypted temp file
    dest,             \* the file at destPath
    result,           \* what Download returned
    temps,            \* the download's temp files: those on disk, those open, the deferred calls
    \* ---- the metaserver client and its handshake (src/metaserver/client.go,
    \*      src/authorization/client.go) ----
    token,            \* client.token
    apc,              \* where a GetAuthToken call stands: "idle", "challenge", "respond"
    handshake,        \* the call in progress: its role and what the challenge GET came to
    sent,             \* the HTTP requests the current (or last) client call sent, in order
    mret,             \* what the last client call was and how it ended
    issued,           \* history: the tokens the metaserver answered a signed nonce with
    \* ---- concurrent callers of the storage manager ----
    mu,               \* sm.mu: the caller that holds it, 0 when free
    threads,          \* per caller: where it stands in its call, the call, what it read and computed
    ledger,           \* history: per contract what the manager started with, handed out, got back
    \* ---- Renter.Download of a file or a folder (src/renter/download.go) ----
    dd,               \* the call: its inputs, where it stands, the disk, what it did, its result
    \* ---- the metaserver's POST /renters handler (src/metaserver/renter.go) ----
    ms                \* the renter table, the last request served and the response written

smVars == <<freelist, offlinePvdrs, lastCacheUpdate, now, ret, release>>

dlVars == <<pc, plain, coding, aes, caller, file, stored, delivered, successes, failures,
            blockFiles, blockInfos, shards, reconstructed, keys, temp2, dest, result, temps>>

mcVars == <<token, apc, handshake, sent, mret, issued>>

ccVars == <<mu, threads, ledger>>

vars == <<smVars, dlVars, mcVars, ccVars, dd, ms>>

(***************************************************************************)
(* Bounds of the model.                                                    *)
(***************************************************************************)
MaxAmount == 2      \* largest Amount a freelist blob may hold
MaxTime == 1        \* the clock runs 0..MaxTime
MaxBlobs == 3       \* largest nblobs asked of FindStorage

\* Identifier universes.  A contract is an agreement with one provider.
ContractIds == {1, 2, 3}
ProviderIds == {1, 2}
ProviderOf(c) == ((c - 1) % 2) + 1
AddrOf(p) == 100 + p

\* sm.updateFreq, in clock ticks.
UpdateFreq == 0
\* Go's zero time.Time, which lastCacheUpdate holds until the first refresh:
\* Now().Sub(zero) saturates at the maximum Duration, above any updateFreq.
ZeroTime == 0 - (UpdateFreq + 1)
\* Smallest blob worth keeping in the freelist.
kMinBlobSize == 1


(***************************************************************************)
(* Helpers on sequences.                                                   *)
(***************************************************************************)
RECURSIVE SumAmount(_)
SumAmount(s) == IF s = << >> THEN 0 ELSE Head(s).Amount + SumAmount(Tail(s))

RemoveAt(s, i) == [j \in 1..(Len(s) - 1) |-> IF j < i THEN s[j] ELSE s[j + 1]]

Swap(s, i, j) == [s EXCEPT ![i] = s[j], ![j] = s[i]]

Blob(c, amt) ==
    [ContractId |-> c, ProviderId |-> ProviderOf(c), Addr |-> AddrOf(ProviderOf(c)), Amount |-> amt]

(***************************************************************************)
(* storageManager internals.                                               *)
(***************************************************************************)

\* An addBlob that never looks for the contract.
addBlobAppends(fl, blob) == Append(fl, blob)

\* addBlob: add to the first entry of the same contract, else append.
addBlob(fl, blob) ==
    IF \E i \in 1..Len(fl) : fl[i].ContractId = blob.ContractId
    THEN LET i == CHOOSE k \in 1..Len(fl) :
                     /\ fl[k].ContractId = blob.ContractId
                     /\ \A j \in 1..(k - 1) : fl[j].ContractId # blob.ContractId
         IN [fl EXCEPT ![i].Amount = @ + blob.Amount]
    ELSE Append(fl, blob)

RECURSIVE addBlobs(_, _)
addBlobs(fl, blobs) ==
    IF blobs = << >> THEN fl ELSE addBlobs(addBlob(fl, Head(blobs)), Tail(blobs))

\* updateOfflineProviders: forget the providers whose release time is past.
updateOfflineProviders(off, t) ==
    [p \in {q \in DOMAIN off : ~(off[q] < t)} |-> off[p]]

\* A marking that overwrites whatever release time was recorded.
RECURSIVE markOfflineOverwrite(_, _, _)
markOfflineOverwrite(off, pvdrIds, until) ==
    IF pvdrIds = << >> THEN off
    ELSE markOfflineOverwrite([q \in DOMAIN off \cup {Head(pvdrIds)} |->
                                 IF q = Head(pvdrIds) THEN until ELSE off[q]],
                              Tail(pvdrIds), until)

\* MarkProvidersOffline's loop over pvdrIds.
RECURSIVE markOffline(_, _, _)
markOffline(off, pvdrIds, until) ==
    IF pvdrIds = << >> THEN off
    ELSE LET p == Head(pvdrIds)
             t == IF p \notin DOMAIN off \/ off[p] < until THEN until ELSE off[p]
         IN markOffline([q \in DOMAIN off \cup {p} |-> IF q = p THEN t ELSE off[q]],
                        Tail(pvdrIds), until)

\* findCandidates without the offline test.
findCandidatesAnyProvider(fl, off, blobSize, startIdx) ==
    IF Len(fl) = 0 THEN << >>
    ELSE LET scan == [j \in 1..Len(fl) |-> ((startIdx + j - 1) % Len(fl)) + 1]
         IN SelectSeq(scan, LAMBDA idx : fl[idx].Amount >= blobSize)

\* findCandidates: the freelist indices (1-based here) of the usable blobs, in scan
\* order from the random start index (0-based, as rand.Intn returns it).
findCandidates(fl, off, blobSize, startIdx) ==
    IF Len(fl) = 0 THEN << >>
    ELSE LET scan == [j \in 1..Len(fl) |-> ((startIdx + j - 1) % Len(fl)) + 1]
         IN SelectSeq(scan, LAMBDA idx :
                /\ fl[idx].Amount >= blobSize
                /\ fl[idx].ProviderId \notin DOMAIN off)

\* A draw that hands out all the candidate holds.
drawWholeBlob(cand, blobSize) ==
    [ProviderId |-> cand.ProviderId, Amount |-> cand.Amount,
     Addr |-> cand.Addr, ContractId |-> cand.ContractId]

\* The blob handed out for one draw from a candidate.
drawBlob(cand, blobSize) ==
    [ProviderId |-> cand.ProviderId, Amount |-> blobSize,
     Addr |-> cand.Addr, ContractId |-> cand.ContractId]

\* The index of the next candidate to draw from, after the draw at index i
\* (0-based) left `n` candidates.
nextIndex(i, n) == (i + 1) % n

\* findStorage's selection loop: candidates are freelist indices, i is 0-based.
RECURSIVE selectLoop(_, _, _, _, _, _)
selectLoop(fl, cands, i, blobs, nblobs, blobSize) ==
    IF Len(blobs) < nblobs /\ Len(cands) > 0
    THEN LET idx == cands[i + 1]
             blob == drawBlob(fl[idx], blobSize)
             fl2 == [fl EXCEPT ![idx].Amount = @ - blob.Amount]
             cands2 == IF fl2[idx].Amount < blobSize THEN RemoveAt(cands, i + 1) ELSE cands
         IN IF Len(cands2) = 0
            THEN [fl |-> fl2, blobs |-> Append(blobs, blob)]
            ELSE selectLoop(fl2, cands2, nextIndex(i, Len(cands2)),
                            Append(blobs, blob), nblobs, blobSize)
    ELSE [fl |-> fl, blobs |-> blobs]

\* A rollback that gives nothing back.
rollbackNothing(fl, blobs) == fl

\* The rollback of a failed findStorage: every partial result goes back by addBlob.
rollback(fl, blobs) == addBlobs(fl, blobs)

\* A pruning that keeps every entry.
pruneNothing(fl) == fl

\* The pruning that ends a successful findStorage.
prune(fl) == SelectSeq(fl, LAMBDA b : ~(b.Amount < kMinBlobSize))

findStorage(fl, off, nblobs, blobSize, startIdx) ==
    LET r == selectLoop(fl, findCandidates(fl, off, blobSize, startIdx), 0, << >>,
                        nblobs, blobSize)
    IN IF Len(r.blobs) < nblobs
       THEN [fl |-> rollback(r.fl, r.blobs), blobs |-> << >>, err |-> TRUE]
       ELSE [fl |-> prune(r.fl), blobs |-> r.blobs, err |-> FALSE]

\* shuffleBlobs: for i from the last index down, swap with a random j <= i.
\* js[i] is the draw for (1-based) position i, in 1..i.
RECURSIVE shuffleFrom(_, _, _)
shuffleFrom(blobs, js, i) ==
    IF i < 1 THEN blobs ELSE shuffleFrom(Swap(blobs, i, js[i]), js, i - 1)

shuffleBlobs(blobs, js) == shuffleFrom(blobs, js, Len(blobs))

\* A refresh that adds what updateFn returned to what the freelist holds.
updateCacheMerging(fl, last, t, upd, js) ==
    IF upd.err THEN [fl |-> fl, last |-> last, refreshed |-> FALSE]
    ELSE [fl |-> addBlobs(fl, upd.blobs), last |-> t, refreshed |-> TRUE]

\* A refresh that is never made.
updateCacheSkipped(fl, last, t, upd, js) == [fl |-> fl, last |-> last, refreshed |-> FALSE]

\* A refresh that stamps the time of the attempt and drops the cache even when
\* updateFn failed.
updateCacheClearsOnError(fl, last, t, upd, js) ==
    IF upd.err THEN [fl |-> << >>, last |-> t, refreshed |-> FALSE]
    ELSE [fl |-> shuffleBlobs(upd.blobs, js), last |-> t, refreshed |-> TRUE]

\* updateCache given what updateFn returned (upd.err, upd.blobs) and the shuffle's
\* draws: on error nothing changes.
updateCache(fl, last, t, upd, js) ==
    IF upd.err THEN [fl |-> fl, last |-> last, refreshed |-> FALSE]
    ELSE [fl |-> shuffleBlobs(upd.blobs, js), last |-> t, refreshed |-> TRUE]

\* A policy that goes by the age of the cache alone.
wantsUpdateWhenStale(fl, last, t) == t - last > UpdateFreq

\* Whether maybeUpdateCache calls updateCache.
wantsUpdate(fl, last, t) == Len(fl) = 0 \/ t - last > UpdateFreq

maybeUpdateCache(fl, last, t, upd, js) ==
    IF wantsUpdate(fl, last, t) THEN updateCache(fl, last, t, upd, js)
    ELSE [fl |-> fl, last |-> last, refreshed |-> FALSE]

(***************************************************************************)
(* Inputs of the storage manager.                                          *)
(***************************************************************************)

\* What updateFn may return: an error, or the metaserver's view, one blob per
\* contract of a set of contracts, in contract order.
RECURSIVE SeqOfSet(_)
SeqOfSet(S) ==
    IF S = {} THEN << >>
    ELSE LET c == CHOOSE x \in S : \A y \in S : x <= y
         IN <<c>> \o SeqOfSet(S \ {c})

\* The free space the metaserver records under each contract.
CatalogAmount(c) == IF c = 1 THEN 2 ELSE 1

ViewOf(S) ==
    [i \in 1..Cardinality(S) |-> Blob(SeqOfSet(S)[i], CatalogAmount(SeqOfSet(S)[i]))]

Views == {{}, {1, 2}}

UpdateFnResults ==
    {[err |-> TRUE, blobs |-> << >>]}
    \cup {[err |-> FALSE, blobs |-> ViewOf(S)] : S \in Views}

\* The calls that do not reach updateFn consult nothing.
NotCalled == [err |-> TRUE, blobs |-> << >>]

\* The draws of one shuffle of n blobs.
ShuffleDraws(n) == {js \in [1..n -> 1..n] : \A i \in 1..n : js[i] <= i}

NoRet == [op |-> "none"]

(***************************************************************************)
(* The storage manager's public operations.                                *)
(***************************************************************************)

\* The callers of the concurrent specification, and their state at rest.
Threads == {1, 2}
IdleThread == [pc |-> "idle", call |-> [op |-> "none"], seen |-> << >>, next |-> << >>]

CCIdleVars ==
    /\ mu = 0
    /\ threads = [t \in Threads |-> IdleThread]
    /\ ledger = [base |-> << >>, handed |-> << >>, returned |-> << >>, refreshed |-> FALSE,
                 started |-> 0]

SMInitVars ==
    /\ \E upd \in UpdateFnResults : ~upd.err /\ freelist = upd.blobs
    /\ offlinePvdrs = << >>
    /\ lastCacheUpdate = ZeroTime
    /\ now = 0
    /\ ret = NoRet
    /\ release = [p \in ProviderIds |-> ZeroTime]

\* The clock moves on between calls.
Tick ==
    /\ ret = NoRet
    /\ UNCHANGED <<dlVars, mcVars, ccVars, dd, ms>>
    /\ now < MaxTime
    /\ now' = now + 1
    /\ release' = [p \in ProviderIds |-> IF release[p] > now' THEN release[p] ELSE ZeroTime]
    /\ UNCHANGED <<freelist, offlinePvdrs, lastCacheUpdate, ret>>

\* The caller takes the returned value; the manager is idle again.
Return ==
    /\ ret # NoRet
    /\ UNCHANGED <<dlVars, mcVars, ccVars, dd, ms>>
    /\ ret' = NoRet
    /\ UNCHANGED <<freelist, offlinePvdrs, lastCacheUpdate, now, release>>

AddBlobs(blobs) ==
    /\ ret = NoRet
    /\ UNCHANGED <<dlVars, mcVars, ccVars, dd, ms>>
    /\ freelist' = addBlobs(freelist, blobs)
    /\ \A i \in 1..Len(freelist') : freelist'[i].Amount <= MaxAmount
    /\ ret' = [op |-> "AddBlobs", blobs |-> blobs, pre |-> freelist]
    /\ UNCHANGED <<offlinePvdrs, lastCacheUpdate, now, release>>

FindStorage(nblobs, blobSize) ==
    /\ ret = NoRet
    /\ UNCHANGED <<dlVars, mcVars, ccVars, dd, ms>>
    /\ \E upd \in IF wantsUpdate(freelist, lastCacheUpdate, now)
               THEN UpdateFnResults ELSE {NotCalled} :
      \E js \in ShuffleDraws(Len(upd.blobs)) :
        LET c == maybeUpdateCache(freelist, lastCacheUpdate, now, upd, js)
            off == updateOfflineProviders(offlinePvdrs, now)
        IN \E startIdx \in IF Len(c.fl) = 0 THEN {0} ELSE 0..(Len(c.fl) - 1) :
             LET r == findStorage(c.fl, off, nblobs, blobSize, startIdx)
             IN /\ freelist' = r.fl
                /\ lastCacheUpdate' = c.last
                /\ offlinePvdrs' = off
                /\ ret' = [op |-> "FindStorage", nblobs |-> nblobs, blobSize |-> blobSize,
                           blobs |-> r.blobs, err |-> r.err,
                           before |-> SumAmount(freelist), refreshed |-> c.refreshed,
                           cached |-> c.fl, pre |-> freelist, offBefore |-> offlinePvdrs,
                           lastBefore |-> lastCacheUpdate,
                           called |-> wantsUpdate(freelist, lastCacheUpdate, now),
                           updErr |-> upd.err, fetched |-> upd.blobs]
                /\ UNCHANGED <<now, release>>

MarkProvidersOffline(pvdrIds, until) ==
    /\ ret = NoRet
    /\ UNCHANGED <<dlVars, mcVars, ccVars, dd, ms>>
    /\ offlinePvdrs' = markOffline(offlinePvdrs, pvdrIds, until)
    /\ release' = [p \in ProviderIds |->
                     IF (\E i \in 1..Len(pvdrIds) : pvdrIds[i] = p)
                        /\ release[p] < until /\ until > now
                     THEN until ELSE release[p]]
    /\ ret' = [op |-> "MarkProvidersOffline", pvdrIds |-> pvdrIds, until |-> until,
               pre |-> freelist, offBefore |-> offlinePvdrs]
    /\ UNCHANGED <<freelist, lastCacheUpdate, now>>

AvailableStorage ==
    /\ ret = NoRet
    /\ UNCHANGED <<dlVars, mcVars, ccVars, dd, ms>>
    /\ \E upd \in UpdateFnResults :
      \E js \in ShuffleDraws(Len(upd.blobs)) :
        LET c == updateCache(freelist, lastCacheUpdate, now, upd, js)
        IN /\ freelist' = c.fl
           /\ lastCacheUpdate' = c.last
           /\ ret' = [op |-> "AvailableStorage", amt |-> SumAmount(c.fl),
                      refreshed |-> c.refreshed, pre |-> freelist,
                      offBefore |-> offlinePvdrs, lastBefore |-> lastCacheUpdate,
                      called |-> TRUE, updErr |-> upd.err, fetched |-> upd.blobs]
           /\ UNCHANGED <<offlinePvdrs, now, release>>

AddInputs == {<<Blob(1, 1)>>, <<Blob(3, 1)>>, <<Blob(2, 1), Blob(1, 1)>>}

\* The shard sizes asked of FindStorage.
BlobSizes == {1, 2}

MarkInputs == {<<1>>, <<2, 1>>}

SMNext ==
    \/ Tick
    \/ Return
    \/ \E blobs \in AddInputs : AddBlobs(blobs)
    \/ \E n \in 1..MaxBlobs, s \in BlobSizes : FindStorage(n, s)
    \/ \E ids \in MarkInputs, until \in 0..(MaxTime + 1) : MarkProvidersOffline(ids, until)
    \/ AvailableStorage


(***************************************************************************)
(* Bytes, and the transforms of the two pipelines.  A byte is an element   *)
(* of the field GF(3), so that the erasure code below is a real maximum-   *)
(* distance code for the codings used.                                     *)
(***************************************************************************)
MaxFileLen == 2     \* longest local file, in bytes

Bytes == 0..2
Mod3(x) == ((x % 3) + 3) % 3

RECURSIVE SeqsUpTo(_)
SeqsUpTo(n) ==
    IF n = 0 THEN {<< >>}
    ELSE LET shorter == SeqsUpTo(n - 1)
         IN shorter \cup {Append(q, b) : q \in {x \in shorter : Len(x) = n - 1}, b \in Bytes}

Zeros(n) == [i \in 1..n |-> 0]

RECURSIVE Concat(_)
Concat(ss) == IF ss = << >> THEN << >> ELSE Head(ss) \o Concat(Tail(ss))

\* zlib: a stream that opens with the format's header; the reader refuses a stream
\* that does not.
zlibCompress(data) == <<2>> \o data
zlibNewReader(stream) == Len(stream) > 0 /\ stream[1] = 2
zlibDecompress(stream) == Tail(stream)

\* AES in CFB mode: each byte is masked with the cipher's image of the key and the
\* previous ciphertext byte, the IV standing before the first.
BlockCipher(key, prev) == Mod3(key + 2 * prev + 1)

RECURSIVE cfbEncrypt(_, _, _)
cfbEncrypt(key, prev, data) ==
    IF data = << >> THEN << >>
    ELSE LET c == Mod3(Head(data) + BlockCipher(key, prev))
         IN <<c>> \o cfbEncrypt(key, c, Tail(data))

RECURSIVE cfbDecrypt(_, _, _)
cfbDecrypt(key, prev, data) ==
    IF data = << >> THEN << >>
    ELSE <<Mod3(Head(data) - BlockCipher(key, prev))>> \o cfbDecrypt(key, Head(data), Tail(data))

\* SHA-256 and its base64url text: distinct byte strings have distinct digests.
sha256(data) == [sha256 |-> data]
blockHash(data) == [b64 |-> sha256(data)]

\* RSA-OAEP: what is wrapped under a principal's public key opens under that
\* principal's private key only.  The empty string stands for a missing field.
rsaWrap(principal, secret) == [to |-> principal, secret |-> secret]
EmptyString == [to |-> "", secret |-> 0]
rsaUnwrap(principal, wrapped) ==
    IF wrapped.to = principal THEN [err |-> FALSE, secret |-> wrapped.secret]
    ELSE [err |-> TRUE, secret |-> 0]

\* Reed-Solomon over GF(3): parity shard j weighs data shard i by Coef(j, i).
Coef(j, i) == IF j = 1 THEN 1 ELSE i

RECURSIVE WeightedSum(_, _, _)
WeightedSum(d, j, i) ==
    IF i = 0 THEN 0 ELSE Mod3(Coef(j, i) * d[i] + WeightedSum(d, j, i - 1))

\* The byte that shard idx of the k+m holds where the data shards hold d[1..k].
CodeByte(d, k, idx) == IF idx <= k THEN d[idx] ELSE WeightedSum(d, idx - k, k)

rsEncode(dataShards, k, m) ==
    LET s == Len(dataShards[1])
    IN [j \in 1..m |->
          [x \in 1..s |-> CodeByte([i \in 1..k |-> dataShards[i][x]], k, k + j)]]

Nil == [ok |-> FALSE, data |-> << >>]
FileOf(data) == [ok |-> TRUE, data |-> data]

\* decoder.Reconstruct: given the k+m readers (Nil for a missing one) and a writer
\* for every shard to rebuild, writes those shards; it refuses fewer than k readers.
rsReconstruct(readers, fills, k, m) ==
    LET present == {idx \in 1..(k + m) : readers[idx].ok}
    IN IF Cardinality(present) < k
       THEN [err |-> TRUE, fills |-> fills]
       ELSE LET s == Len(readers[CHOOSE idx \in present : TRUE].data)
                Fits(d, x) == \A idx \in present : CodeByte(d, k, idx) = readers[idx].data[x]
                Solve(x) == IF \E d \in [1..k -> Bytes] : Fits(d, x)
                            THEN CHOOSE d \in [1..k -> Bytes] : Fits(d, x)
                            ELSE [i \in 1..k |-> 0]
            IN [err |-> FALSE,
                fills |-> [idx \in 1..(k + m) |->
                             IF fills[idx].ok
                             THEN FileOf([x \in 1..s |-> CodeByte(Solve(x), k, idx)])
                             ELSE Nil]]

(***************************************************************************)
(* The upload pipeline, as far as a download depends on it: compress,      *)
(* encrypt, pad, split, add parity, hash, wrap the key.                    *)
(***************************************************************************)
\* Shard size and padding for L bytes in k data shards.
shardSize(L, k) == (L + k - 1) \div k
paddingBytes(L, k) == shardSize(L, k) * k - L

uploadVersion(data, k, m, key, iv) ==
    LET enc == cfbEncrypt(key, iv, zlibCompress(data))
        s == shardSize(Len(enc), k)
        padded == enc \o Zeros(paddingBytes(Len(enc), k))
        dataShards == [i \in 1..k |-> SubSeq(padded, (i - 1) * s + 1, i * s)]
        all == dataShards \o rsEncode(dataShards, k, m)
    IN [shards |-> all,
        version |-> [Num |-> 1, NumDataBlocks |-> k, NumParityBlocks |-> m,
                     PaddingBytes |-> paddingBytes(Len(enc), k),
                     Blocks |-> [i \in 1..(k + m) |->
                                   [ID |-> i, Size |-> s, Sha256Hash |-> blockHash(all[i])]]]]

permissionFor(renter, key, iv) ==
    [RenterId |-> renter, AesKey |-> rsaWrap(renter, key), AesIV |-> rsaWrap(renter, iv)]

(***************************************************************************)
(* The download pipeline.                                                  *)
(***************************************************************************)

\* A downloadBlock that checks the size and not the hash.
downloadBlockSizeOnly(block, got) ==
    IF got.err THEN "Cannot get block."
    ELSE IF got.localErr THEN "Cannot write block to local file."
    ELSE IF Len(got.data) # block.Size THEN "Corrupted block: block has incorrect size."
    ELSE ""

\* downloadBlock, given what the provider's GET produced: the error text, "" for
\* a block that passed.
downloadBlock(block, got) ==
    IF got.err THEN "Cannot get block."
    ELSE IF got.localErr THEN "Cannot write block to local file."
    ELSE IF Len(got.data) # block.Size THEN "Corrupted block: block has incorrect size."
    ELSE IF blockHash(got.data) # block.Sha256Hash
         THEN "Corrupted block: block hash does not match that expected."
    ELSE ""

\* A loop that goes on while blocks are left.
moreBlocksWhileAny(version, nsucc, nfail) ==
    nsucc + nfail < version.NumDataBlocks + version.NumParityBlocks

\* A loop that allows one failure more.
moreBlocksOneMore(version, nsucc, nfail) ==
    nsucc < version.NumDataBlocks /\ nfail <= version.NumParityBlocks + 1

\* A loop that gives up at the m-th failure.
moreBlocksStrict(version, nsucc, nfail) ==
    nsucc < version.NumDataBlocks /\ nfail < version.NumParityBlocks

\* The loop condition of performFileDownload.
moreBlocks(version, nsucc, nfail) ==
    nsucc < version.NumDataBlocks /\ nfail <= version.NumParityBlocks

\* decryptEncryptionKeys' choice of the wrapped key and IV: the file's own for the
\* owner, else those of the last permission naming the caller, else empty strings.
RECURSIVE lastPermission(_, _, _)
lastPermission(accessList, renter, found) ==
    IF accessList = << >> THEN found
    ELSE lastPermission(Tail(accessList), renter,
                        IF Head(accessList).RenterId = renter
                        THEN [key |-> Head(accessList).AesKey, iv |-> Head(accessList).AesIV]
                        ELSE found)

\* A choice that takes the first permission, whoever it names.
keysOfFirstPermission(f, renter) ==
    IF f.OwnerID = renter THEN [key |-> f.AesKey, iv |-> f.AesIV]
    ELSE IF f.AccessList = << >> THEN [key |-> EmptyString, iv |-> EmptyString]
    ELSE [key |-> f.AccessList[1].AesKey, iv |-> f.AccessList[1].AesIV]

keysToDecrypt(f, renter) ==
    IF f.OwnerID = renter THEN [key |-> f.AesKey, iv |-> f.AesIV]
    ELSE lastPermission(f.AccessList, renter, [key |-> EmptyString, iv |-> EmptyString])

decryptEncryptionKeys(f, renter) ==
    LET w == keysToDecrypt(f, renter)
        k == rsaUnwrap(renter, w.key)
        v == rsaUnwrap(renter, w.iv)
    IN IF w.key = EmptyString \/ w.iv = EmptyString
       THEN [err |-> "could not find permission in access list", wrapped |-> w,
             key |-> 0, iv |-> 0]
       ELSE IF k.err THEN [err |-> "Unable to decrypt aes key.", wrapped |-> w, key |-> 0, iv |-> 0]
       ELSE IF v.err THEN [err |-> "Unable to decrypt aes IV.", wrapped |-> w, key |-> 0, iv |-> 0]
       ELSE [err |-> "", wrapped |-> w, key |-> k.secret, iv |-> v.secret]

\* A reconstruction that keeps every slot.
reconstructBlocksKeepAll(files, k, m) ==
    [err |-> FALSE, files |-> files, readers |-> files, fillFiles |-> << >>]

\* A reconstruction that gives a fill file to every empty slot.
reconstructBlocksFillAll(files, k, m) ==
    LET readers == [idx \in 1..(k + m) |-> IF idx <= Len(files) THEN files[idx] ELSE Nil]
        fillFiles == [idx \in 1..(k + m) |-> IF ~readers[idx].ok THEN FileOf(<< >>) ELSE Nil]
        r == rsReconstruct(readers, fillFiles, k, m)
    IN [err |-> r.err,
        files |-> [i \in 1..k |-> IF files[i].ok THEN files[i] ELSE r.fills[i]],
        readers |-> readers, fillFiles |-> fillFiles]

\* finishDownload's reconstruction: pad the readers to k+m, give a fill file to every
\* missing data shard, reconstruct, take the fills for the missing data shards and
\* keep the first k.
reconstructBlocks(files, k, m) ==
    LET readers == [idx \in 1..(k + m) |-> IF idx <= Len(files) THEN files[idx] ELSE Nil]
        fillFiles == [idx \in 1..(k + m) |->
                        IF ~readers[idx].ok /\ idx <= k THEN FileOf(<< >>) ELSE Nil]
        r == rsReconstruct(readers, fillFiles, k, m)
    IN [err |-> r.err,
        files |-> [i \in 1..k |-> IF files[i].ok THEN files[i] ELSE r.fills[i]],
        readers |-> readers, fillFiles |-> fillFiles]

\* f.Truncate(st.Size() - PaddingBytes) on the last block file: a negative size is
\* refused.
truncateLast(files, padding) ==
    LET n == Len(files)
        size == Len(files[n].data) - padding
    IN IF size < 0 THEN [err |-> TRUE, files |-> files]
       ELSE [err |-> FALSE,
             files |-> [files EXCEPT ![n] = FileOf(SubSeq(files[n].data, 1, size))]]

\* The temp files of a download: made counts the ioutil.TempFile calls that
\* succeeded, files are the paths on disk, open the descriptors not yet closed,
\* deferred the stack of deferred calls of the two functions.
NoTemps == [made |-> 0, files |-> {}, open |-> {}, deferred |-> << >>]

\* A temp file whose removal is never deferred.
deferCloseOnly(stack, f) == Append(stack, [do |-> "close", f |-> f])

\* defer temp.Close(); defer os.Remove(temp.Name())
deferCloseAndRemove(stack, f) ==
    Append(Append(stack, [do |-> "close", f |-> f]), [do |-> "remove", f |-> f])

\* ioutil.TempFile followed by its two defers.
createTemp(t) ==
    LET f == t.made + 1
    IN [made |-> f, files |-> t.files \cup {f}, open |-> t.open \cup {f},
        deferred |-> deferCloseAndRemove(t.deferred, f)]

RECURSIVE createTemps(_, _)
createTemps(t, n) == IF n = 0 THEN t ELSE createTemps(createTemp(t), n - 1)

\* The deferred calls run, last first, when the functions return or panic.
RECURSIVE runDefers(_)
runDefers(t) ==
    IF t.deferred = << >> THEN t
    ELSE LET d == t.deferred[Len(t.deferred)]
             rest == SubSeq(t.deferred, 1, Len(t.deferred) - 1)
         IN runDefers([made |-> t.made,
                       files |-> IF d.do = "remove" THEN t.files \ {d.f} ELSE t.files,
                       open |-> IF d.do = "close" THEN t.open \ {d.f} ELSE t.open,
                       deferred |-> rest])

\* The data shards finishDownload has to give a fill file to.
missingDataShards(files, k) ==
    Cardinality({idx \in 1..k : idx > Len(files) \/ ~files[idx].ok})

NoKeys == [err |-> "", wrapped |-> [key |-> EmptyString, iv |-> EmptyString], key |-> 0, iv |-> 0]
NoFile == [written |-> FALSE, data |-> << >>]

\* The inputs: codings <<k, m>>, key and IV pairs, the three renters, and who is on
\* the file's access list when which renter downloads.
Codings == {<<1, 1>>, <<2, 1>>, <<2, 2>>, <<3, 1>>}
AesPairs == {<<1, 0>>, <<2, 1>>}
Owner == "A"
Scenarios ==
    {[caller |-> "A", shared |-> << >>], [caller |-> "A", shared |-> <<"B">>],
     [caller |-> "B", shared |-> <<"B">>], [caller |-> "B", shared |-> <<"C", "B">>],
     [caller |-> "C", shared |-> <<"B">>], [caller |-> "C", shared |-> << >>]}

\* What a GET of a block may come to: nothing (the provider is unreachable), the
\* stored bytes, the bytes cut short, the bytes with one changed, or the stored
\* bytes with the copy into the temp file failing.
Deliveries(data) ==
    {[err |-> TRUE, localErr |-> FALSE, data |-> << >>],
     [err |-> FALSE, localErr |-> FALSE, data |-> data],
     [err |-> FALSE, localErr |-> FALSE, data |-> SubSeq(data, 1, Len(data) - 1)],
     [err |-> FALSE, localErr |-> FALSE, data |-> [data EXCEPT ![1] = Mod3(@ + 1)]],
     [err |-> FALSE, localErr |-> TRUE, data |-> data]}

DLIdleVars ==
    /\ pc = "idle" /\ plain = << >> /\ coding = <<1, 1>> /\ aes = <<1, 0>>
    /\ caller = Owner /\ file = [OwnerID |-> Owner] /\ stored = << >>
    /\ delivered = << >> /\ successes = 0 /\ failures = 0
    /\ blockFiles = << >> /\ blockInfos = << >> /\ shards = << >>
    /\ reconstructed = FALSE /\ keys = NoKeys /\ temp2 = << >> /\ dest = NoFile
    /\ result = "" /\ temps = NoTemps

SMIdleVars ==
    /\ freelist = << >> /\ offlinePvdrs = << >> /\ lastCacheUpdate = ZeroTime
    /\ now = 0 /\ ret = NoRet /\ release = [p \in ProviderIds |-> ZeroTime]

\* NewClient: no token yet, nothing sent.
NoHandshake == [role |-> "", challenge |-> "none", respond |-> "none", granted |-> ""]
NoCall == [op |-> "none", outcome |-> "none", text |-> "", tokenBefore |-> ""]

MCInitVars ==
    /\ token = "" /\ apc = "idle" /\ handshake = NoHandshake
    /\ sent = << >> /\ mret = NoCall /\ issued = {}

DLInit ==
    /\ SMIdleVars
    /\ MCInitVars
    /\ CCIdleVars
    /\ dd = [pc |-> "idle"] /\ ms = [pc |-> "idle"]
    /\ pc = "upload"
    /\ plain \in SeqsUpTo(MaxFileLen)
    /\ coding \in Codings
    /\ aes \in AesPairs
    /\ \E sc \in Scenarios :
         /\ caller = sc.caller
         /\ file = [OwnerID |-> Owner, AesKey |-> EmptyString, AesIV |-> EmptyString,
                    AccessList |-> [i \in 1..Len(sc.shared) |->
                                      permissionFor(sc.shared[i], aes[1], aes[2])],
                    Versions |-> << >>]
    /\ stored = << >> /\ delivered = << >> /\ successes = 0 /\ failures = 0
    /\ blockFiles = << >> /\ blockInfos = << >> /\ shards = << >>
    /\ reconstructed = FALSE /\ keys = NoKeys /\ temp2 = << >> /\ dest = NoFile
    /\ result = "" /\ temps = NoTemps

Version == file.Versions[1]

\* The owner uploads the file: its blocks go to the providers, its version and its
\* wrapped key to the file record.
Upload ==
    /\ pc = "upload"
    /\ LET up == uploadVersion(plain, coding[1], coding[2], aes[1], aes[2])
       IN /\ stored' = up.shards
          /\ file' = [file EXCEPT !.AesKey = rsaWrap(Owner, aes[1]),
                                  !.AesIV = rsaWrap(Owner, aes[2]),
                                  !.Versions = <<up.version>>]
    /\ pc' = "fetch"
    /\ UNCHANGED <<plain, coding, aes, caller, delivered, successes, failures, blockFiles,
                   blockInfos, shards, reconstructed, keys, temp2, dest, result, temps>>
    /\ UNCHANGED <<smVars, mcVars, ccVars, dd, ms>>

Fail(text) ==
    /\ pc' = "done"
    /\ result' = text

\* One turn of performFileDownload's loop: a temp file, then downloadBlock into it.
FetchBlock ==
    /\ pc = "fetch"
    /\ moreBlocks(Version, successes, failures)
    /\ LET i == Len(blockInfos) + 1   \* the loop's i, one more per turn
       IN IF i > Len(Version.Blocks)
          THEN /\ Fail("panic: index out of range")
               /\ temps' = runDefers(createTemp(temps))
               /\ UNCHANGED <<delivered, successes, failures, blockFiles, blockInfos>>
          ELSE \E got \in Deliveries(stored[i]) :
                 LET err == downloadBlock(Version.Blocks[i], got)
                 IN /\ delivered' = Append(delivered, got)
                    /\ blockInfos' = Append(blockInfos, [BlockId |-> Version.Blocks[i].ID,
                                                          Error |-> err])
                    /\ IF err = ""
                       THEN /\ successes' = successes + 1
                            /\ failures' = failures
                            /\ blockFiles' = Append(blockFiles, FileOf(got.data))
                       ELSE /\ failures' = failures + 1
                            /\ successes' = successes
                            /\ blockFiles' = Append(blockFiles, Nil)
                    /\ temps' = createTemp(temps)
                    /\ UNCHANGED <<pc, result>>
    /\ UNCHANGED <<plain, coding, aes, caller, file, stored, shards, reconstructed, keys,
                   temp2, dest>>
    /\ UNCHANGED <<smVars, mcVars, ccVars, dd, ms>>

\* A local file operation fails (a temp file cannot be created, a seek, a stat or a
\* copy fails): the download returns that error.
LocalIOError ==
    /\ pc \in {"fetch", "finish", "strip", "decrypt", "decompress"}
    /\ pc = "fetch" => moreBlocks(Version, successes, failures)
    /\ Fail("local file error")
    /\ LET made == CASE pc = "finish" /\ failures > 0 ->
                          0..(missingDataShards(blockFiles, Version.NumDataBlocks) - 1)
                      [] pc = "decrypt" -> 0..1
                      [] OTHER -> {0}
       IN \E n \in made : temps' = runDefers(createTemps(temps, n))
    /\ UNCHANGED <<plain, coding, aes, caller, file, stored, delivered, successes, failures,
                   blockFiles, blockInfos, shards, reconstructed, keys, temp2, dest>>
    /\ UNCHANGED <<smVars, mcVars, ccVars, dd, ms>>

\* The loop is over: too few blocks, or on to finishDownload.
EndFetch ==
    /\ pc = "fetch"
    /\ ~moreBlocks(Version, successes, failures)
    /\ IF successes < Version.NumDataBlocks
       THEN Fail("Failed to download enough file data blocks.") /\ temps' = runDefers(temps)
       ELSE pc' = "finish" /\ UNCHANGED <<result, temps>>
    /\ UNCHANGED <<plain, coding, aes, caller, file, stored, delivered, successes, failures,
                   blockFiles, blockInfos, shards, reconstructed, keys, temp2, dest>>
    /\ UNCHANGED <<smVars, mcVars, ccVars, dd, ms>>

\* finishDownload, first part: reconstruction when a block failed, then the check
\* that k block files are at hand.
Reconstruct ==
    /\ pc = "finish"
    /\ LET k == Version.NumDataBlocks
           needsReconstruction == failures > 0
           r == IF needsReconstruction
                THEN reconstructBlocks(blockFiles, k, Version.NumParityBlocks)
                ELSE [err |-> FALSE, files |-> blockFiles]
           withFills == IF needsReconstruction
                        THEN createTemps(temps, missingDataShards(blockFiles, k))
                        ELSE temps
       IN /\ reconstructed' = needsReconstruction
          /\ IF r.err
             THEN Fail("Failed to reconstruct file.") /\ UNCHANGED shards
                  /\ temps' = runDefers(withFills)
             ELSE IF Len(r.files) # k
             THEN Fail("panic: block files should contain file.NumDataBlocks files")
                  /\ UNCHANGED shards /\ temps' = runDefers(withFills)
             ELSE pc' = "strip" /\ shards' = r.files /\ UNCHANGED result
                  /\ temps' = withFills
    /\ UNCHANGED <<plain, coding, aes, caller, file, stored, delivered, successes, failures,
                   blockFiles, blockInfos, keys, temp2, dest>>
    /\ UNCHANGED <<smVars, mcVars, ccVars, dd, ms>>

\* finishDownload: remove the padding of the last block.
StripPadding ==
    /\ pc = "strip"
    /\ LET r == IF Version.PaddingBytes > 0
                THEN truncateLast(shards, Version.PaddingBytes)
                ELSE [err |-> FALSE, files |-> shards]
       IN IF r.err
          THEN Fail("Unable to truncate padding bytes.") /\ UNCHANGED shards
               /\ temps' = runDefers(temps)
          ELSE pc' = "keys" /\ shards' = r.files /\ UNCHANGED <<result, temps>>
    /\ UNCHANGED <<plain, coding, aes, caller, file, stored, delivered, successes, failures,
                   blockFiles, blockInfos, reconstructed, keys, temp2, dest>>
    /\ UNCHANGED <<smVars, mcVars, ccVars, dd, ms>>

\* finishDownload: recover the AES key and IV.
SelectKeys ==
    /\ pc = "keys"
    /\ keys' = decryptEncryptionKeys(file, caller)
    /\ IF keys'.err # ""
       THEN Fail(keys'.err) /\ temps' = runDefers(temps)
       ELSE pc' = "decrypt" /\ UNCHANGED <<result, temps>>
    /\ UNCHANGED <<plain, coding, aes, caller, file, stored, delivered, successes, failures,
                   blockFiles, blockInfos, shards, reconstructed, temp2, dest>>
    /\ UNCHANGED <<smVars, mcVars, ccVars, dd, ms>>

\* finishDownload: decrypt the concatenated block files into a temp file.
Decrypt ==
    /\ pc = "decrypt"
    /\ temp2' = cfbDecrypt(keys.key, keys.iv, Concat([i \in 1..Len(shards) |-> shards[i].data]))
    /\ temps' = createTemp(temps)
    /\ pc' = "decompress"
    /\ UNCHANGED <<plain, coding, aes, caller, file, stored, delivered, successes, failures,
                   blockFiles, blockInfos, shards, reconstructed, keys, dest, result>>
    /\ UNCHANGED <<smVars, mcVars, ccVars, dd, ms>>

\* finishDownload: decompress the temp file into the destination.
Decompress ==
    /\ pc = "decompress"
    /\ temps' = runDefers(temps)
    /\ IF ~zlibNewReader(temp2)
       THEN Fail("Unable to initialize decompression reader.") /\ UNCHANGED dest
       ELSE /\ dest' = [written |-> TRUE, data |-> zlibDecompress(temp2)]
            /\ pc' = "done"
            /\ result' = "ok"
    /\ UNCHANGED <<plain, coding, aes, caller, file, stored, delivered, successes, failures,
                   blockFiles, blockInfos, shards, reconstructed, keys, temp2>>
    /\ UNCHANGED <<smVars, mcVars, ccVars, dd, ms>>

DLNext ==
    \/ Upload
    \/ FetchBlock
    \/ LocalIOError
    \/ EndFetch
    \/ Reconstruct
    \/ StripPadding
    \/ SelectKeys
    \/ Decrypt
    \/ Decompress

(***************************************************************************)
(* The metaserver client: the handshake that obtains the bearer token and  *)
(* the typed calls that carry it.  A client is used by one caller at a     *)
(* time; the metaserver's answers are inputs.                              *)
(***************************************************************************)
Tokens == {"", "t1", "t2"}
Roles == {"renter", "provider"}

NoAuthHeader == [scheme |-> "", token |-> ""]
bearer(tok) == [scheme |-> "Bearer", token |-> tok]

Request(verb, path, scope, auth) == [verb |-> verb, path |-> path, scope |-> scope, auth |-> auth]

\* A client method: its HTTP verb and URL, the part of the directory the URL lies
\* in, whether it wants a token and attaches it, whether it tests the error of the
\* send, and the status it takes as success (0: the status is not looked at).
M(name, verb, path, scope, guarded, checksErr, success) ==
    [name |-> name, verb |-> verb, path |-> path, scope |-> scope, guarded |-> guarded,
     checksErr |-> checksErr, success |-> success]

Methods ==
    {
     M("RegisterProvider", "POST", "/providers", "providers", FALSE, TRUE, 201),
     M("GetProviders", "GET", "/providers", "providers", FALSE, TRUE, 200),
     M("GetProvider", "GET", "/providers/%s", "provider", FALSE, TRUE, 200),
     M("UpdateProvider", "PUT", "/providers/%s", "provider", TRUE, FALSE, 200),
     M("DeleteProvider", "DELETE", "/providers/%s", "provider", TRUE, FALSE, 200),
     M("RegisterRenter", "POST", "/renters", "renters", FALSE, TRUE, 201),
     M("GetRenter", "GET", "/renters/%s", "renter", TRUE, FALSE, 200),
     M("UpdateRenter", "PUT", "/renters/%s", "renter", TRUE, FALSE, 200),
     M("DeleteRenter", "DELETE", "/renters/%s", "renter", TRUE, FALSE, 200),
     M("PostFile", "POST", "/renters/%s/files", "renter", TRUE, TRUE, 201),
     M("UpdateFile", "PUT", "/renters/%s/files/%s", "renter", TRUE, TRUE, 200),
     M("GetFile", "GET", "/renters/%s/files/%s", "renter", TRUE, TRUE, 200),
     M("GetFiles", "GET", "/renters/%s/files", "renter", TRUE, TRUE, 200),
     M("DeleteFile", "DELETE", "/renters/%s/files/%s", "renter", TRUE, TRUE, 200),
     M("PostFileVersion", "POST", "/renters/%s/files/%s/versions", "renter", TRUE, TRUE, 201),
     M("PutFileVersion", "PUT", "/renters/%s/files/%s/versions/%d", "renter", TRUE, TRUE, 200),
     M("GetFileVersion", "GET", "/renters/%s/files/%s/versions/%d", "renter", TRUE, TRUE, 200),
     M("GetFileVersions", "GET", "/renters/%s/files/%s/versions", "renter", TRUE, TRUE, 0),
     M("DeleteFileVersion", "DELETE", "/renters/%s/files/%s/versions/%d", "renter", TRUE, TRUE, 200),
     M("GetSharedFile", "GET", "/renters/%s/shared/%s", "renter", TRUE, TRUE, 200),
     M("ShareFile", "POST", "/renters/%s/files/%s/permissions", "renter", TRUE, TRUE, 201),
     M("UnshareFile", "DELETE", "/renters/%s/files/%s/permissions/%s", "renter", TRUE, TRUE, 200),
     M("GetSharedFiles", "GET", "/renters/%s/shared", "renter", TRUE, TRUE, 200),
     M("RemoveSharedFile", "DELETE", "/renters/%s/shared/%s", "renter", TRUE, TRUE, 200),
     M("PostContract", "POST", "/renters/%s/contracts", "renter", TRUE, TRUE, 201),
     M("GetContract", "GET", "/renters/%s/contracts/%s", "renter", TRUE, TRUE, 200),
     M("GetRenterContracts", "GET", "/renters/%s/contracts", "renter", TRUE, TRUE, 200),
     M("DeleteContract", "DELETE", "/renters/%s/contracts/%s", "renter", TRUE, TRUE, 200)
    }

\* What a send may come to: no response (transport error), or a response with a
\* status and a body that is the record asked for or an error message.
Responses ==
    {[transportErr |-> TRUE, status |-> 0, body |-> ""],
     [transportErr |-> FALSE, status |-> 200, body |-> "record"],
     [transportErr |-> FALSE, status |-> 201, body |-> "record"],
     [transportErr |-> FALSE, status |-> 401, body |-> "error"],
     [transportErr |-> FALSE, status |-> 500, body |-> "error"]}

\* A guard that lets every call through.
neverRefuses(tok) == FALSE

\* if client.token == "" { return errors.New("must authorize ...") }
mustAuthorize(tok) == tok = ""

MustAuthorizeText == "must authorize before calling this method"

\* How a method ends on a response.
outcomeOf(m, resp) ==
    IF resp.transportErr THEN (IF m.checksErr THEN "error" ELSE "panic")
    ELSE IF m.success # 0 /\ resp.status # m.success THEN "error"
    ELSE IF resp.body # "record" /\ m.verb = "GET" THEN "error"
    ELSE "ok"

Alive == mret.outcome # "panic"

\* One call of a client method other than the two Authorize methods.
Call(m) ==
    /\ apc = "idle" /\ Alive
    /\ IF m.guarded /\ mustAuthorize(token)
       THEN /\ sent' = << >>
            /\ mret' = [op |-> m.name, outcome |-> "error", text |-> MustAuthorizeText,
                        tokenBefore |-> token]
       ELSE \E resp \in Responses :
              /\ sent' = <<Request(m.verb, m.path, m.scope,
                                   IF m.guarded THEN bearer(token) ELSE NoAuthHeader)>>
              /\ mret' = [op |-> m.name, outcome |-> outcomeOf(m, resp),
                          text |-> IF resp.transportErr THEN "transport error" ELSE "",
                          tokenBefore |-> token]
    /\ UNCHANGED <<token, apc, handshake, issued>>
    /\ UNCHANGED <<smVars, dlVars, ccVars, dd, ms>>

\* What the challenge GET may come to: a transport error, or a response whose
\* status and nonce GetAuthToken does not test.
ChallengeOutcomes == {"transport error", "nonce", "error status", "no nonce"}
ChallengeFailed(c) == c \in {"transport error", "error status", "no nonce"}

\* What the POST of the signed nonce may come to.
RespondOutcomes ==
    {[transportErr |-> TRUE, readErr |-> FALSE, status |-> 0, body |-> ""],
     [transportErr |-> FALSE, readErr |-> TRUE, status |-> 200, body |-> ""],
     [transportErr |-> FALSE, readErr |-> FALSE, status |-> 401, body |-> ""]}
    \cup {[transportErr |-> FALSE, readErr |-> FALSE, status |-> 200, body |-> t] : t \in Tokens}

RespondKind(r) ==
    IF r.transportErr THEN "transport error"
    ELSE IF r.status # 200 THEN "rejected"
    ELSE IF r.readErr THEN "read error"
    ELSE "token"

AuthPath(role) == IF role = "renter" THEN "/auth/renter" ELSE "/auth/provider"
AuthOp(role) == IF role = "renter" THEN "AuthorizeRenter" ELSE "AuthorizeProvider"

\* AuthorizeRenter / AuthorizeProvider is called: GetAuthToken starts.
AuthorizeBegin(role) ==
    /\ apc = "idle" /\ Alive
    /\ apc' = "challenge"
    /\ handshake' = [role |-> role, challenge |-> "none", respond |-> "none", granted |-> ""]
    /\ sent' = << >>
    /\ mret' = [op |-> AuthOp(role), outcome |-> "running", text |-> "", tokenBefore |-> token]
    /\ UNCHANGED <<token, issued>>
    /\ UNCHANGED <<smVars, dlVars, ccVars, dd, ms>>

\* An Authorize call that forgets the token it held when it fails.
AuthEndsForgetsToken(outcome, text) ==
    /\ apc' = "idle"
    /\ mret' = [mret EXCEPT !.outcome = outcome, !.text = text]
    /\ token' = ""

\* The end of an Authorize call that returns an error or panics: the token stays.
AuthEnds(outcome, text) ==
    /\ apc' = "idle"
    /\ mret' = [mret EXCEPT !.outcome = outcome, !.text = text]
    /\ UNCHANGED token

\* GetAuthToken: the challenge GET, the decoding of the nonce and its signing.
Challenge ==
    /\ apc = "challenge"
    /\ sent' = Append(sent, Request("GET", AuthPath(handshake.role), "auth", NoAuthHeader))
    /\ \E c \in ChallengeOutcomes, signErr \in BOOLEAN :
         /\ handshake' = [handshake EXCEPT !.challenge = c]
         /\ IF c = "transport error" THEN AuthEnds("error", "transport error")
            ELSE IF signErr THEN AuthEnds("error", "signing error")
            ELSE apc' = "respond" /\ UNCHANGED <<mret, token>>
    /\ UNCHANGED issued
    /\ UNCHANGED <<smVars, dlVars, ccVars, dd, ms>>

\* A client that keeps the token it has over a new one.
RespondKeepsToken ==
    /\ apc = "respond"
    /\ sent' = Append(sent, Request("POST", AuthPath(handshake.role), "auth", NoAuthHeader))
    /\ \E r \in RespondOutcomes :
         /\ handshake' = [handshake EXCEPT !.respond = RespondKind(r),
                                         !.granted = IF RespondKind(r) = "token"
                                                     THEN r.body ELSE ""]
         /\ IF r.transportErr THEN AuthEnds("error", "transport error") /\ UNCHANGED issued
            ELSE IF r.readErr THEN AuthEnds("error", "read error") /\ UNCHANGED issued
            ELSE IF r.status # 200 THEN AuthEnds("panic", "Bad status") /\ UNCHANGED issued
            ELSE /\ token' = (IF token = "" THEN r.body ELSE token)
                 /\ issued' = issued \cup {r.body}
                 /\ apc' = "idle"
                 /\ mret' = [mret EXCEPT !.outcome = "ok"]
    /\ UNCHANGED <<smVars, dlVars, ccVars, dd, ms>>

\* GetAuthToken: the POST of the signed nonce and the reading of the answer;
\* AuthorizeRenter / AuthorizeProvider store the token of a call without error.
Respond ==
    /\ apc = "respond"
    /\ sent' = Append(sent, Request("POST", AuthPath(handshake.role), "auth", NoAuthHeader))
    /\ \E r \in RespondOutcomes :
         /\ handshake' = [handshake EXCEPT !.respond = RespondKind(r),
                                         !.granted = IF RespondKind(r) = "token"
                                                     THEN r.body ELSE ""]
         /\ IF r.transportErr THEN AuthEnds("error", "transport error") /\ UNCHANGED issued
            ELSE IF r.readErr THEN AuthEnds("error", "read error") /\ UNCHANGED issued
            ELSE IF r.status # 200 THEN AuthEnds("panic", "Bad status") /\ UNCHANGED issued
            ELSE /\ token' = r.body
                 /\ issued' = issued \cup {r.body}
                 /\ apc' = "idle"
                 /\ mret' = [mret EXCEPT !.outcome = "ok"]
    /\ UNCHANGED <<smVars, dlVars, ccVars, dd, ms>>

MCNext ==
    \/ \E m \in Methods : Call(m)
    \/ \E role \in Roles : AuthorizeBegin(role)
    \/ Challenge
    \/ Respond

MCInit == MCInitVars /\ SMIdleVars /\ DLIdleVars /\ CCIdleVars /\ dd = [pc |-> "idle"] /\ ms = [pc |-> "idle"]

SpecMC == MCInit /\ [][MCNext]_vars

(***************************************************************************)
(* Concurrent callers of the storage manager.  A public method locks       *)
(* sm.mu, reads the manager's fields, computes, writes them back and       *)
(* unlocks; the reading and the writing are separate steps, so that what   *)
(* the mutex does shows.                                                   *)
(***************************************************************************)
MaxCalls == 3       \* calls started by all callers together

CCCalls ==
    {[op |-> "FindStorage", nblobs |-> n, blobSize |-> sz] : n \in {1, 2}, sz \in BlobSizes}
    \cup {[op |-> "AddBlobs", blobs |-> b] : b \in AddInputs}
    \cup {[op |-> "MarkProvidersOffline", pvdrIds |-> ids, until |-> 1] : ids \in MarkInputs}
    \cup {[op |-> "AvailableStorage"]}

\* The fields sm.mu covers.
Shared == [fl |-> freelist, off |-> offlinePvdrs, last |-> lastCacheUpdate]

\* The bytes a sequence of blobs holds for one contract.
AmountOf(blobs, c) ==
    SumAmount(SelectSeq(blobs, LAMBDA b : b.ContractId = c))

\* A Lock that never waits.
canLockAlways(holder) == TRUE

\* sm.mu.Lock() goes through when nobody holds the mutex.
canLock(holder) == holder = 0

\* What a public method does between Lock and Unlock, from the fields it reads.
criticalSection(call, sh, t, upd, js, startIdx) ==
    CASE call.op = "FindStorage" ->
           LET c == maybeUpdateCache(sh.fl, sh.last, t, upd, js)
               off == updateOfflineProviders(sh.off, t)
               r == findStorage(c.fl, off, call.nblobs, call.blobSize, startIdx)
           IN [fl |-> r.fl, off |-> off, last |-> c.last, blobs |-> r.blobs, err |-> r.err,
               amt |-> 0, refreshed |-> c.refreshed]
      [] call.op = "AddBlobs" ->
           [fl |-> addBlobs(sh.fl, call.blobs), off |-> sh.off, last |-> sh.last,
            blobs |-> << >>, err |-> FALSE, amt |-> 0, refreshed |-> FALSE]
      [] call.op = "MarkProvidersOffline" ->
           [fl |-> sh.fl, off |-> markOffline(sh.off, call.pvdrIds, call.until),
            last |-> sh.last, blobs |-> << >>, err |-> FALSE, amt |-> 0, refreshed |-> FALSE]
      [] call.op = "AvailableStorage" ->
           LET c == updateCache(sh.fl, sh.last, t, upd, js)
           IN [fl |-> c.fl, off |-> sh.off, last |-> c.last, blobs |-> << >>, err |-> FALSE,
               amt |-> SumAmount(c.fl), refreshed |-> c.refreshed]

CCInit ==
    /\ \E upd \in UpdateFnResults : ~upd.err /\ freelist = upd.blobs
    /\ offlinePvdrs = << >>
    /\ lastCacheUpdate = ZeroTime
    /\ now = 0
    /\ ret = NoRet
    /\ release = [p \in ProviderIds |-> ZeroTime]
    /\ mu = 0
    /\ threads = [t \in Threads |-> IdleThread]
    /\ ledger = [base |-> [c \in ContractIds |-> AmountOf(freelist, c)],
                 handed |-> [c \in ContractIds |-> 0],
                 returned |-> [c \in ContractIds |-> 0],
                 refreshed |-> FALSE, started |-> 0]
    /\ DLIdleVars
    /\ MCInitVars
    /\ dd = [pc |-> "idle"] /\ ms = [pc |-> "idle"]

\* A caller enters a public method.
CCBegin(t, call) ==
    /\ threads[t].pc = "idle"
    /\ ledger.started < MaxCalls
    /\ threads' = [threads EXCEPT ![t] = [pc |-> "lock", call |-> call, seen |-> << >>,
                                          next |-> << >>]]
    /\ ledger' = [ledger EXCEPT !.started = @ + 1]
    /\ UNCHANGED <<smVars, mu>>
    /\ UNCHANGED <<dlVars, mcVars, dd, ms>>

\* sm.mu.Lock()
CCLock(t) ==
    /\ threads[t].pc = "lock"
    /\ canLock(mu)
    /\ mu' = t
    /\ threads' = [threads EXCEPT ![t].pc = "read"]
    /\ UNCHANGED <<smVars, ledger>>
    /\ UNCHANGED <<dlVars, mcVars, dd, ms>>

\* The method reads the fields and computes on them.
CCCompute(t) ==
    /\ threads[t].pc = "read"
    /\ LET call == threads[t].call
           callsUpdateFn == \/ call.op = "AvailableStorage"
                            \/ /\ call.op = "FindStorage"
                               /\ wantsUpdate(freelist, lastCacheUpdate, now)
       IN \E upd \in (IF callsUpdateFn THEN UpdateFnResults ELSE {NotCalled}) :
          \E js \in ShuffleDraws(Len(upd.blobs)) :
          \E startIdx \in 0..(IF call.op = "FindStorage" /\ Len(freelist) > 1
                              THEN Len(freelist) - 1 ELSE 0) :
            threads' = [threads EXCEPT ![t].pc = "write",
                                       ![t].seen = Shared,
                                       ![t].next = criticalSection(call, Shared, now, upd, js,
                                                                   startIdx)]
    /\ UNCHANGED <<smVars, mu, ledger>>
    /\ UNCHANGED <<dlVars, mcVars, dd, ms>>

\* The method's writes reach the fields.
CCPublish(t) ==
    /\ threads[t].pc = "write"
    /\ LET nx == threads[t].next
           call == threads[t].call
       IN /\ freelist' = nx.fl
          /\ offlinePvdrs' = nx.off
          /\ lastCacheUpdate' = nx.last
          /\ ledger' = [ledger EXCEPT
                          !.handed = [c \in ContractIds |-> @[c] + AmountOf(nx.blobs, c)],
                          !.returned = [c \in ContractIds |->
                                          @[c] + (IF call.op = "AddBlobs"
                                                  THEN AmountOf(call.blobs, c) ELSE 0)],
                          !.refreshed = @ \/ nx.refreshed]
    /\ threads' = [threads EXCEPT ![t].pc = "unlock"]
    /\ UNCHANGED <<now, ret, release, mu>>
    /\ UNCHANGED <<dlVars, mcVars, dd, ms>>

\* sm.mu.Unlock() and the return.
CCUnlock(t) ==
    /\ threads[t].pc = "unlock"
    /\ mu' = 0
    /\ threads' = [threads EXCEPT ![t] = IdleThread]
    /\ UNCHANGED <<smVars, ledger>>
    /\ UNCHANGED <<dlVars, mcVars, dd, ms>>

CCNext ==
    \/ \E t \in Threads, call \in CCCalls : CCBegin(t, call)
    \/ \E t \in Threads : CCLock(t)
    \/ \E t \in Threads : CCCompute(t)
    \/ \E t \in Threads : CCPublish(t)
    \/ \E t \in Threads : CCUnlock(t)

SpecCC == CCInit /\ [][CCNext]_vars

(***************************************************************************)
(* Renter.Download.  Names and paths are sequences of path components;     *)
(* what GetFile and findChildren return, and how each file download and    *)
(* each mkdir ends, are inputs.                                            *)
(***************************************************************************)

\* The Versions a file record may hold: appended with growing Num, any of them
\* deleted since.
VersionLists ==
    {<< >>, <<[Num |-> 1]>>, <<[Num |-> 1], [Num |-> 2]>>, <<[Num |-> 1], [Num |-> 3]>>,
     <<[Num |-> 2], [Num |-> 3]>>}

\* A lookup by position in the list.
findVersionAt(f, versionNum) ==
    IF versionNum <= Len(f.Versions) THEN <<f.Versions[versionNum]>> ELSE << >>

\* findVersion: the first version with that Num, << >> for nil.
findVersion(f, versionNum) ==
    LET hits == {i \in 1..Len(f.Versions) : f.Versions[i].Num = versionNum}
    IN IF hits = {} THEN << >>
       ELSE <<f.Versions[CHOOSE i \in hits : \A j \in hits : i <= j]>>

\* os.MkdirAll: the directory and every directory above it.
MkdirAll(dirs, p) == dirs \cup {SubSeq(p, 1, n) : n \in 1..Len(p)}

\* How a downloadFile may end short of the destination: "" for not at all.
FileFailures == {"", "Failed to download enough file data blocks."}

DDInit ==
    /\ SMIdleVars /\ DLIdleVars /\ MCInitVars /\ CCIdleVars
    /\ ms = [pc |-> "idle"]
    /\ \E vs \in VersionLists, num \in {<< >>, <<1>>, <<2>>}, to \in {<< >>, <<"out">>},
          isDir \in BOOLEAN :
       \E kids \in SUBSET {<<"d", "a">>, <<"d", "s">>, <<"d", "s", "b">>} :
       \E order \in [1..Cardinality(kids) -> kids] :
         /\ \A i, j \in DOMAIN order : order[i] = order[j] => i = j
         /\ ~isDir => kids = {}
         /\ dd = [pc |-> "call",
                  file |-> [Name |-> IF isDir THEN <<"d">> ELSE <<"f">>, IsDir |-> isDir,
                            Versions |-> IF isDir THEN << >> ELSE vs],
                  versionNum |-> num, destPath |-> to,
                  children |-> [i \in DOMAIN order |->
                                  [Name |-> order[i], IsDir |-> order[i] = <<"d", "s">>,
                                   Versions |-> CASE order[i] = <<"d", "a">> -> vs
                                                  [] order[i] = <<"d", "s">> -> << >>
                                                  [] OTHER -> <<[Num |-> 1], [Num |-> 2]>>]],
                  i |-> 1, dirs |-> {<<"home">>, <<"out">>} \ {to}, files |-> {},
                  events |-> << >>, err |-> "", names |-> << >>]

\* The call returns an error.
DDFail(text, names) ==
    dd' = [dd EXCEPT !.pc = "done", !.err = text, !.names = names]

\* Download, up to the first child of a folder.
Download ==
    /\ dd.pc = "call"
    /\ \E getFileErr \in BOOLEAN, homeErr \in BOOLEAN, mkdirErr \in BOOLEAN,
          fails \in FileFailures :
         LET f == dd.file
             destPath == IF dd.destPath = << >> THEN <<"home", f.Name[Len(f.Name)]>>
                         ELSE dd.destPath
             found == IF dd.versionNum = << >> THEN <<f.Versions[Len(f.Versions)]>>
                      ELSE findVersion(f, dd.versionNum[1])
         IN IF getFileErr THEN DDFail("GetFile", << >>)
            ELSE IF f.IsDir /\ dd.versionNum # << >>
            THEN DDFail("Cannot give version option with folder download", << >>)
            ELSE IF dd.destPath = << >> /\ homeErr THEN DDFail("user.Current", << >>)
            ELSE IF f.IsDir
            THEN IF mkdirErr THEN DDFail("mkdir", destPath)
                 ELSE dd' = [dd EXCEPT !.pc = "children", !.destPath = destPath,
                                       !.dirs = MkdirAll(@, destPath),
                                       !.events = Append(@, [do |-> "mkdir", path |-> destPath])]
            ELSE IF Len(f.Versions) = 0 THEN DDFail("File has no versions", << >>)
            ELSE IF found = << >> THEN DDFail("Cannot find version", << >>)
            ELSE IF fails # "" THEN DDFail(fails, << >>)
            ELSE dd' = [dd EXCEPT !.pc = "done", !.destPath = destPath,
                                  !.files = @ \cup {destPath},
                                  !.events = Append(@, [do |-> "download", path |-> destPath,
                                                        num |-> found[1].Num])]
    /\ UNCHANGED <<smVars, dlVars, mcVars, ccVars, ms>>

\* One turn of performDirDownload's loop over the children, or its return.
performDirDownload ==
    /\ dd.pc = "children"
    /\ IF dd.i > Len(dd.children)
       THEN dd' = [dd EXCEPT !.pc = "done"]
       ELSE \E mkdirErr \in BOOLEAN, fails \in FileFailures :
              LET child == dd.children[dd.i]
                  relPath == SubSeq(child.Name, Len(dd.file.Name) + 1, Len(child.Name))
                  fullPath == dd.destPath \o relPath
                  parent == SubSeq(fullPath, 1, Len(fullPath) - 1)
              IN IF child.IsDir
                 THEN IF mkdirErr THEN DDFail("Unable to create folder", fullPath)
                      ELSE dd' = [dd EXCEPT !.i = @ + 1, !.dirs = MkdirAll(@, fullPath),
                                            !.events = Append(@, [do |-> "mkdir",
                                                                  path |-> fullPath])]
                 ELSE IF Len(child.Versions) = 0
                 THEN DDFail("File has no versions to download.", child.Name)
                 ELSE IF fails # "" THEN DDFail(fails, << >>)
                 ELSE IF parent \notin dd.dirs
                 THEN DDFail("Unable to create destination file.", fullPath)
                 ELSE dd' = [dd EXCEPT
                               !.i = @ + 1, !.files = @ \cup {fullPath},
                               !.events = Append(@, [do |-> "download", path |-> fullPath,
                                                     num |-> child.Versions[Len(child.Versions)].Num])]
    /\ UNCHANGED <<smVars, dlVars, mcVars, ccVars, ms>>

DDNext == Download \/ performDirDownload

SpecDD == DDInit /\ [][DDNext]_vars

(***************************************************************************)
(* The metaserver: registration of a renter (POST /renters).               *)
(***************************************************************************)
\* parsePublicKey: the error it returns, "" for none.
parsePublicKey(key) == IF key \in {"k1", "k2", "k3"} THEN "" ELSE "invalid key"

\* fingerprintKey: the SHA-256 fingerprint of the key, distinct keys having
\* distinct fingerprints.
fingerprintKey(key) ==
    CASE key = "k1" -> "f1" [] key = "k2" -> "f2" [] key = "k3" -> "f3"
      [] OTHER -> "f0"

RenterInfo(id, key) == [ID |-> id, PublicKey |-> key]

\* The requests: a body that does not parse, or a RenterInfo with whatever ID
\* the sender wrote into it and, for PublicKey, nothing, text that is no RSA
\* public key, or the key of one of three renters.
PostRenterRequests ==
    {[parses |-> FALSE, renter |-> RenterInfo("", "")]}
    \cup {[parses |-> TRUE, renter |-> RenterInfo(id, key)] :
             id \in {"", "mine", "f1"},
             key \in {"", "not a key", "k1", "k2", "k3"}}

\* db.InsertRenter: the table keeps one record per ID; the insert fails on an
\* ID already in the table and when the database is at fault.
InsertRenter(db, renter, fault) ==
    IF fault THEN [db |-> db, err |-> "database error"]
    ELSE IF \E r \in db : r.ID = renter.ID THEN [db |-> db, err |-> "renter exists"]
    ELSE [db |-> db \cup {renter}, err |-> ""]

\* http.ResponseWriter: the first WriteHeader fixes the status, a later one is
\* ignored; what is encoded is appended to the body.
WriteHeader(w, code) == IF w.status = 0 THEN [w EXCEPT !.status = code] ELSE w
Encode(w, v) ==
    [status |-> IF w.status = 0 THEN 200 ELSE w.status, body |-> Append(w.body, v)]

MSInit ==
    /\ SMIdleVars /\ DLIdleVars /\ MCInitVars /\ CCIdleVars
    /\ dd = [pc |-> "idle"]
    /\ ms = [pc |-> "serving", db |-> {}, pre |-> {}, fault |-> FALSE,
             req |-> [parses |-> FALSE, renter |-> RenterInfo("", "")],
             status |-> 0, body |-> << >>]

\* postRenterHandler serves one request.
postRenterHandler ==
    /\ ms.pc = "serving"
    /\ UNCHANGED <<smVars, dlVars, mcVars, ccVars, dd>>
    /\ \E req \in PostRenterRequests, fault \in BOOLEAN :
         LET w0 == [status |-> 0, body |-> << >>]
             refuse(text) == Encode(WriteHeader(w0, 400), [kind |-> "error", error |-> text])
             renter == [req.renter EXCEPT !.ID = fingerprintKey(req.renter.PublicKey)]
             ins == InsertRenter(ms.db, renter, fault)
             afterInsert == IF ins.err # "" THEN refuse(ins.err) ELSE w0
             w == IF ~req.parses THEN refuse("unable to parse payload")
                  ELSE IF req.renter.PublicKey = ""
                       THEN refuse("must specify RSA public key")
                  ELSE IF parsePublicKey(req.renter.PublicKey) # ""
                       THEN refuse("invalid RSA public key")
                  ELSE Encode(WriteHeader(afterInsert, 201),
                              [kind |-> "renter", renter |-> renter])
             reached == req.parses /\ req.renter.PublicKey # ""
                        /\ parsePublicKey(req.renter.PublicKey) = ""
         IN ms' = [pc |-> "serving",
                   db |-> IF reached THEN ins.db ELSE ms.db,
                   pre |-> ms.db, fault |-> reached /\ fault,
                   req |-> req, status |-> w.status, body |-> w.body]

MSNext == postRenterHandler

SpecMS == MSInit /\ [][MSNext]_vars

SMInit == SMInitVars /\ DLIdleVars /\ MCInitVars /\ CCIdleVars /\ dd = [pc |-> "idle"] /\ ms = [pc |-> "idle"]

SpecSM == SMInit /\ [][SMNext]_vars

SpecDL == DLInit /\ [][DLNext]_vars

(***************************************************************************)
(* Storage manager: properties.                                            *)
(***************************************************************************)

FindStorageFailed == ret.op = "FindStorage" /\ ret.err
FindStorageSucceeded == ret.op = "FindStorage" /\ ~ret.err

\* A freelist entry FindStorage may draw from: large enough, provider not offline.
Eligible(b, off, blobSize) == b.Amount >= blobSize /\ b.ProviderId \notin DOMAIN off

\* How many of the returned blobs carry contract c.
Drawn(blobs, c) == Cardinality({i \in 1..Len(blobs) : blobs[i].ContractId = c})

\* C1 as stated: after a FindStorage call that fails, the freelist's total Amount
\* equals its total immediately before the call.
C1_ConservationAcrossCall ==
    FindStorageFailed => SumAmount(freelist) = ret.before

\* C1 as amended: after a FindStorage call that fails, the freelist's total Amount
\* equals the total of the freelist as the call's cache-refresh step left it, which
\* is the total before the call whenever that step did not replace the freelist.
C1_ConservationAfterRefresh ==
    FindStorageFailed =>
        /\ SumAmount(freelist) = SumAmount(ret.cached)
        /\ ~ret.refreshed => SumAmount(freelist) = ret.before

\* A failed call that had drawn from an eligible entry before it rolled back.
C1_Witness ==
    /\ FindStorageFailed
    /\ ~ret.refreshed
    /\ \E i \in 1..Len(freelist) : Eligible(freelist[i], offlinePvdrs, ret.blobSize)

\* C2: no blob returned by FindStorage belongs to a provider that was marked
\* offline with a release time still ahead of the clock, whatever AddBlobs,
\* refreshes and further MarkProvidersOffline calls came in between.
C2_OfflineHonoring ==
    ret.op = "FindStorage" =>
        \A i \in 1..Len(ret.blobs) : ~(release[ret.blobs[i].ProviderId] > now)

\* FindStorage handed out blobs while the cache held a large-enough blob of a
\* provider whose release time is ahead.
C2_Witness ==
    /\ FindStorageSucceeded
    /\ Len(ret.blobs) > 0
    /\ \E i \in 1..Len(ret.cached) :
          /\ release[ret.cached[i].ProviderId] > now
          /\ ret.cached[i].Amount >= ret.blobSize

\* C3: a successful FindStorage(n, s) returns exactly n blobs of Amount s, each
\* carrying the ContractId, ProviderId and Addr of a freelist entry that held at
\* least s at every draw from it, and every entry left in the freelist holds what
\* it held less s per blob drawn from it.
C3_FindStorageResult ==
    FindStorageSucceeded =>
        LET base == ret.cached
            s == ret.blobSize
        IN /\ Len(ret.blobs) = ret.nblobs
           /\ \A i \in 1..Len(ret.blobs) :
                /\ ret.blobs[i].Amount = s
                /\ \E j \in 1..Len(base) :
                     /\ base[j].ContractId = ret.blobs[i].ContractId
                     /\ base[j].ProviderId = ret.blobs[i].ProviderId
                     /\ base[j].Addr = ret.blobs[i].Addr
                     /\ base[j].Amount >= s * Drawn(ret.blobs, base[j].ContractId)
           /\ \A k \in 1..Len(freelist) :
                \E j \in 1..Len(base) :
                     /\ base[j].ContractId = freelist[k].ContractId
                     /\ freelist[k].Amount =
                            base[j].Amount - s * Drawn(ret.blobs, base[j].ContractId)

\* A successful call that came back round to an entry, with another entry it drew
\* from still in the freelist.
C3_Witness ==
    /\ FindStorageSucceeded
    /\ \E c \in ContractIds : Drawn(ret.blobs, c) >= 2
    /\ \E k \in 1..Len(freelist) : Drawn(ret.blobs, freelist[k].ContractId) >= 1

\* C4: when at least n freelist entries are eligible, the n blobs FindStorage
\* returns come from pairwise distinct contracts.
C4_DistinctEntries ==
    (/\ FindStorageSucceeded
     /\ Cardinality({j \in 1..Len(ret.cached) :
                        Eligible(ret.cached[j], offlinePvdrs, ret.blobSize)}) >= ret.nblobs)
    => \A i, j \in 1..Len(ret.blobs) :
          i # j => ret.blobs[i].ContractId # ret.blobs[j].ContractId

(***************************************************************************)
(* Download pipeline: properties.                                          *)
(***************************************************************************)

Uploaded == pc \notin {"idle", "upload"}
InsufficientShards == "Failed to download enough file data blocks."
NotPermitted == "could not find permission in access list"
LocalError == "local file error"

\* The caller owns the file or is named on its access list.
Permitted ==
    \/ caller = file.OwnerID
    \/ \E i \in 1..Len(file.AccessList) : file.AccessList[i].RenterId = caller

\* The length L of the compressed and encrypted file.
EncryptedLen == Len(cfbEncrypt(aes[1], aes[2], zlibCompress(plain)))

\* What the provider sent for attempted block idx passes downloadBlock's two tests.
ValidDelivery(idx) ==
    /\ ~delivered[idx].err
    /\ Len(delivered[idx].data) = Version.Blocks[idx].Size
    /\ blockHash(delivered[idx].data) = Version.Blocks[idx].Sha256Hash

\* C5: when at most m of the k+m blocks fail to download, the download gathers k
\* blocks and completes successfully (for a caller entitled to the key, on a
\* machine whose local files work).
C5_Tolerance ==
    (/\ pc = "done"
     /\ failures <= Version.NumParityBlocks
     /\ result # LocalError
     /\ Permitted)
    => successes = Version.NumDataBlocks /\ result = "ok"

\* C6 as stated: when more than m blocks fail, so that fewer than k are valid, the
\* download fails with InsufficientShards with all k+m blocks tried, and neither
\* reconstruction nor a write to the destination takes place.
C6_FailsWithAllBlocksTried ==
    (pc = "done" /\ failures > Version.NumParityBlocks)
    => /\ result = InsufficientShards
       /\ Len(delivered) = Version.NumDataBlocks + Version.NumParityBlocks
       /\ ~reconstructed /\ shards = << >> /\ ~dest.written

\* C6 as amended: the download fails with InsufficientShards exactly when m+1
\* blocks have failed before k succeeded; it stops at that failure, the blocks
\* after it untried, and neither reconstruction nor a write to the destination
\* takes place.
C6_FailsAtBudget ==
    /\ (pc = "done" /\ failures > Version.NumParityBlocks)
       => /\ result = InsufficientShards
          /\ failures = Version.NumParityBlocks + 1
          /\ successes < Version.NumDataBlocks
          /\ Len(delivered) = successes + failures
          /\ Len(delivered) <= Version.NumDataBlocks + Version.NumParityBlocks
          /\ blockInfos[Len(blockInfos)].Error # ""
          /\ ~reconstructed /\ shards = << >> /\ ~dest.written
    /\ result = InsufficientShards => failures > Version.NumParityBlocks
    /\ (Uploaded /\ successes < Version.NumDataBlocks)
       => ~reconstructed /\ shards = << >> /\ ~dest.written

\* The download gave up with blocks left untried.
C6_Witness ==
    /\ result = InsufficientShards
    /\ Len(delivered) < Version.NumDataBlocks + Version.NumParityBlocks

\* C7: an attempted block has a block file exactly when what was received has the
\* size and the hash of its Block record (and was written to the temp file);
\* otherwise its slot is nil and its BlockDownloadInfo carries the error (a
\* corrupted-block error when bytes of the wrong size or hash arrived), and only
\* bytes the providers truly store reach the shards that are decrypted.
C7_HashGating ==
    Uploaded =>
        /\ \A idx \in 1..Len(blockFiles) :
             /\ blockFiles[idx].ok <=> (ValidDelivery(idx) /\ ~delivered[idx].localErr)
             /\ blockFiles[idx].ok => blockFiles[idx].data = delivered[idx].data
                                      /\ blockInfos[idx].Error = ""
             /\ ~blockFiles[idx].ok => blockFiles[idx] = Nil /\ blockInfos[idx].Error # ""
             /\ (~delivered[idx].err /\ ~ValidDelivery(idx))
                => blockInfos[idx].Error \in
                     {"Corrupted block: block has incorrect size.",
                      "Corrupted block: block hash does not match that expected."}
        /\ \A i \in 1..Len(shards) :
             shards[i].data = SubSeq(stored[i], 1, Len(shards[i].data))

\* A block came with a byte changed, was refused, and the download still went through.
C7_Witness ==
    /\ result = "ok"
    /\ \E idx \in 1..Len(delivered) :
         /\ ~delivered[idx].err
         /\ Len(delivered[idx].data) = Version.Blocks[idx].Size
         /\ delivered[idx].data # stored[idx]
         /\ ~blockFiles[idx].ok

\* C8: once the keys are chosen, the owner decrypts with the file's own wrapped
\* key and IV, another renter with those of the one permission that names it, and
\* a renter that is neither gets NotPermitted; for such a renter nothing is
\* decrypted and the destination is never written.
C8_KeySelection ==
    /\ keys # NoKeys =>
         /\ caller = file.OwnerID
            => keys.wrapped = [key |-> file.AesKey, iv |-> file.AesIV]
         /\ caller # file.OwnerID
            => \A i \in 1..Len(file.AccessList) :
                 (/\ file.AccessList[i].RenterId = caller
                  /\ \A j \in 1..Len(file.AccessList) :
                       file.AccessList[j].RenterId = caller => j = i)
                 => keys.wrapped = [key |-> file.AccessList[i].AesKey,
                                    iv |-> file.AccessList[i].AesIV]
         /\ ~Permitted => pc = "done" /\ result = NotPermitted
         /\ Permitted => keys.err = "" /\ keys.key = aes[1] /\ keys.iv = aes[2]
    /\ ~Permitted => ~dest.written /\ temp2 = << >> /\ result # "ok"

\* A renter on the access list, not the owner, downloaded the file.
C8_Witness ==
    /\ caller # file.OwnerID
    /\ result = "ok"
    /\ dest.written

\* C9: a download with every block delivered as stored returns the uploaded file.
C9_RoundTrip ==
    (/\ pc = "done"
     /\ failures = 0
     /\ result # LocalError
     /\ Permitted)
    => result = "ok" /\ dest.written /\ dest.data = plain

\* C11: when the download has returned, on whatever path, every temp file it
\* made (block files, fill files, the decrypted temp) is closed and removed; and
\* while it runs every temp file on disk has its close and its removal deferred.
C11_TempFilesReleased ==
    /\ pc = "done" => temps.files = {} /\ temps.open = {} /\ temps.deferred = << >>
    /\ temps.files \subseteq 1..temps.made
    /\ temps.open \subseteq 1..temps.made
    /\ pc # "done" =>
          /\ temps.files = 1..temps.made
          /\ \A f \in temps.files :
                \E i \in 1..Len(temps.deferred) :
                    temps.deferred[i] = [do |-> "remove", f |-> f]

\* A download that made block files, a fill file and the decrypted temp has returned.
C11_Witness ==
    /\ pc = "done"
    /\ reconstructed
    /\ result = "ok"
    /\ temps.made >= Len(blockFiles) + 2

\* C22: the blocks are requested one per turn in the order of Version.Blocks; a
\* turn begins only while fewer than k blocks have succeeded and at most m have
\* failed; and the download fails for want of blocks only once more than m have
\* failed.
C22_FetchOrderAndStop ==
    Uploaded =>
        LET Succ(j) == Cardinality({i \in 1..j : blockInfos[i].Error = ""})
        IN /\ \A j \in 1..Len(blockInfos) :
                /\ blockInfos[j].BlockId = Version.Blocks[j].ID
                /\ Succ(j - 1) < Version.NumDataBlocks
                /\ (j - 1) - Succ(j - 1) <= Version.NumParityBlocks
           /\ result = InsufficientShards => failures > Version.NumParityBlocks
           /\ (pc = "fetch" /\ ~moreBlocks(Version, successes, failures)) =>
                 \/ successes = Version.NumDataBlocks
                 \/ failures > Version.NumParityBlocks

\* A download went on past failed blocks, m of them, the first block among them,
\* to its k-th success.
C22_Witness ==
    /\ pc = "finish"
    /\ failures = Version.NumParityBlocks
    /\ failures >= 2
    /\ blockInfos[1].Error # ""
    /\ blockInfos[Len(blockInfos)].Error = ""

\* C29: with k+m blocks in the version, the number of turns made equals
\* successes + failures, a turn begins only below k+m turns, and the loop never
\* indexes Blocks out of range.
C29_LoopIndexInRange ==
    (Uploaded /\ Len(Version.Blocks) = Version.NumDataBlocks + Version.NumParityBlocks) =>
        /\ Len(blockInfos) = successes + failures
        /\ Len(blockFiles) = Len(blockInfos)
        /\ (pc = "fetch" /\ moreBlocks(Version, successes, failures)) =>
              Len(blockInfos) < Len(Version.Blocks)
        /\ result # "panic: index out of range"

\* The last block of a version of three or more was requested.
C29_Witness ==
    /\ Uploaded
    /\ Len(Version.Blocks) >= 3
    /\ Len(blockInfos) = Len(Version.Blocks)
    /\ blockInfos[Len(blockInfos)].BlockId = Version.Blocks[Len(Version.Blocks)].ID

\* C30: once finishDownload is entered, exactly k of the block files are there,
\* a slot is nil exactly when the block tried for it failed, and the panic about
\* the number of block files does not happen, reconstruction or not.
C30_BlockFilesAtFinish ==
    (Uploaded /\ pc \notin {"fetch"} /\ successes = Version.NumDataBlocks) =>
        /\ Cardinality({i \in 1..Len(blockFiles) : blockFiles[i].ok}) = Version.NumDataBlocks
        /\ \A i \in 1..Len(blockFiles) : ~blockFiles[i].ok <=> blockInfos[i].Error # ""
        /\ result # "panic: block files should contain file.NumDataBlocks files"
        /\ pc \in {"strip", "keys", "decrypt", "decompress"} =>
              Len(shards) = Version.NumDataBlocks

\* finishDownload went past its check after a reconstruction over more than k
\* slots.
C30_Witness ==
    /\ pc = "strip"
    /\ reconstructed
    /\ Len(blockFiles) > Version.NumDataBlocks
    /\ Len(shards) = Version.NumDataBlocks

\* C23: finishDownload reconstructs exactly when one of the first k blocks
\* failed; the reconstructor then gets k+m readers, nil for every block that
\* failed or was not tried, and a fill file exactly for the data slots that are
\* nil; and the k shards that go on are the data shards in index order, the
\* failed ones as reconstructed.
C23_Reconstruction ==
    LET k == Version.NumDataBlocks
        m == Version.NumParityBlocks
        r == reconstructBlocks(blockFiles, k, m)
    IN /\ pc \in {"strip", "keys", "decrypt", "decompress"} =>
             (reconstructed <=> \E i \in 1..k : ~blockFiles[i].ok)
       /\ reconstructed =>
             /\ Len(r.readers) = k + m /\ Len(r.fillFiles) = k + m
             /\ \A idx \in 1..(k + m) :
                   /\ r.readers[idx].ok <=> (idx <= Len(blockInfos) /\ blockInfos[idx].Error = "")
                   /\ r.readers[idx].ok => r.readers[idx].data = delivered[idx].data
                   /\ r.fillFiles[idx].ok <=> (idx <= k /\ ~r.readers[idx].ok)
       /\ (reconstructed /\ pc = "strip") =>
             /\ Len(shards) = k
             /\ \A i \in 1..k : shards[i].ok /\ shards[i].data = stored[i]
             /\ \A i \in 1..k : blockFiles[i].ok => shards[i] = blockFiles[i]

\* A reconstruction with a failed data block, a parity block that was not tried
\* and one that was used.
C23_Witness ==
    /\ pc = "strip" /\ reconstructed
    /\ Len(blockFiles) < Version.NumDataBlocks + Version.NumParityBlocks
    /\ Len(blockFiles) > Version.NumDataBlocks
    /\ blockFiles[Len(blockFiles)].ok
    /\ \E i \in 1..Version.NumDataBlocks : ~blockFiles[i].ok /\ Len(shards[i].data) > 0

\* C10: the shard size s and the padding of an uploaded version satisfy
\* s * k - L = padding and 0 <= padding < s, so that PaddingBytes < Blocks[0].Size.
C10_PaddingBelowShardSize ==
    Uploaded =>
        LET s == Version.Blocks[1].Size
        IN /\ s * Version.NumDataBlocks - EncryptedLen = Version.PaddingBytes
           /\ 0 <= Version.PaddingBytes
           /\ Version.PaddingBytes < s

(***************************************************************************)
(* Metaserver client: properties.                                          *)
(***************************************************************************)

AuthOps == {"AuthorizeRenter", "AuthorizeProvider"}
Gets(reqs) == {i \in 1..Len(reqs) : reqs[i].verb = "GET"}
Posts(reqs) == {i \in 1..Len(reqs) : reqs[i].verb = "POST"}
Mutating(r) == r.verb \in {"POST", "PUT", "DELETE"}
RenterRead(r) == r.verb = "GET" /\ r.scope = "renter"
Registration(r) == r.verb = "POST" /\ r.scope \in {"providers", "renters"}
CarriesToken(r) ==
    /\ r.auth.scheme = "Bearer"
    /\ r.auth.token # ""
    /\ r.auth.token = token
    /\ r.auth.token \in issued

\* C12: a GetAuthToken call sends at most one challenge GET and then at most one
\* POST of the signed nonce; when the challenge fails (transport error, error
\* status or no nonce) no POST is sent and the call fails, and a failed POST ends
\* the call without another request.
C12_TwoStepsTerminalFailure ==
    mret.op \in AuthOps =>
        /\ Cardinality(Gets(sent)) <= 1 /\ Cardinality(Posts(sent)) <= 1
        /\ \A i \in Posts(sent) : \E j \in Gets(sent) : j < i
        /\ ChallengeFailed(handshake.challenge) =>
             /\ Posts(sent) = {}
             /\ apc = "idle" /\ mret.outcome = "error"
        /\ handshake.respond \in {"transport error", "read error", "rejected"} =>
             /\ apc = "idle" /\ mret.outcome # "ok" /\ Len(sent) = 2

\* C13: when the metaserver rejects the signed nonce (a response to the POST
\* other than 200) the Authorize call returns an error value and the stored token
\* is what it was.
C13_AuthErrorSurfaced ==
    (mret.op \in AuthOps /\ handshake.respond = "rejected")
    => mret.outcome = "error" /\ token = mret.tokenBefore

\* C14 as stated: every mutating request and every read under /renters/<id> that
\* a client method sends carries the header Authorization: Bearer <token> with the
\* token the handshake obtained.
C14_EveryMutationCarriesToken ==
    mret.op \notin AuthOps =>
        \A i \in 1..Len(sent) :
            (Mutating(sent[i]) \/ RenterRead(sent[i])) => CarriesToken(sent[i])

\* C14 as amended: every mutating request other than the two registrations
\* (POST /providers, POST /renters), and every read under /renters/<id>, carries
\* the header Authorization: Bearer <token> with the non-empty token the handshake
\* obtained; the registrations are sent with no Authorization header, and a
\* token-guarded method on a client without a token sends nothing.
C14_GuardedCallsCarryToken ==
    mret.op \notin AuthOps =>
        /\ \A i \in 1..Len(sent) :
             /\ ((Mutating(sent[i]) /\ ~Registration(sent[i])) \/ RenterRead(sent[i]))
                => CarriesToken(sent[i])
             /\ Registration(sent[i]) => sent[i].auth = NoAuthHeader
        /\ mret.text = MustAuthorizeText => sent = << >> /\ token = ""

\* A token-carrying write below /renters/<id> has been sent.
C14_Witness ==
    /\ mret.op = "PostFile"
    /\ Len(sent) = 1
    /\ sent[1].auth = bearer(token)
    /\ token \in issued \ {""}

\* C27: a client call whose request fails at the transport level returns an
\* error, and a method other than the two Authorize methods has sent that one
\* request and no other.
C27_TransportErrorReturned ==
    mret.text = "transport error" =>
        /\ mret.outcome = "error"
        /\ mret.op \notin AuthOps => Len(sent) = 1

\* C28: an Authorize call whose signed nonce the metaserver answers with a token
\* succeeds whatever token the client held, having sent its own challenge GET and
\* its own POST; the client then holds the token of that answer, and the requests
\* of the token-carrying methods called after it carry that token.
C28_AuthorizeEachTime ==
    /\ (mret.op \in AuthOps /\ apc = "idle" /\ handshake.respond = "token") =>
          /\ mret.outcome = "ok"
          /\ token = handshake.granted
          /\ Len(sent) = 2
          /\ sent[1].verb = "GET" /\ sent[2].verb = "POST"
          /\ sent[1].path = AuthPath(handshake.role) /\ sent[2].path = sent[1].path
    /\ (mret.op \notin AuthOps /\ handshake.respond = "token" /\ sent # << >>
          /\ sent[1].auth # NoAuthHeader) =>
          /\ sent[1].auth = bearer(handshake.granted)
          /\ token = handshake.granted

\* After a first Authorize call had brought one token, a second brought another,
\* and a call after it carried the second.
C28_Witness ==
    /\ mret.op = "GetFile" /\ mret.outcome = "ok"
    /\ handshake.respond = "token" /\ handshake.granted = "t2"
    /\ issued = {"t1", "t2"}
    /\ sent = <<Request("GET", "/renters/%s/files/%s", "renter", bearer("t2"))>>

\* C32: on a client no Authorize call of which has yet returned without error,
\* every token-guarded method returns the error "must authorize before calling
\* this method" and sends no request; and the stored token is changed by nothing
\* but an Authorize call that returns without error: after any other call, and
\* during and after an Authorize call that fails, it is what it was before.
C32_TokenGating ==
    /\ (issued = {} /\ \E m \in Methods : m.name = mret.op /\ m.guarded) =>
          /\ mret.outcome = "error" /\ mret.text = MustAuthorizeText
          /\ sent = << >>
    /\ issued = {} => token = ""
    /\ (mret.op # "none" /\ ~(mret.op \in AuthOps /\ mret.outcome = "ok")) =>
          token = mret.tokenBefore
    /\ (mret.op \in AuthOps /\ mret.outcome = "ok") => token \in issued

\* An Authorize call failed at the POST of the signed nonce, and the guarded
\* call made after it on the client, still without a token, was refused with
\* nothing sent.
C32_Witness ==
    /\ mret.op = "PostFileVersion"
    /\ mret.outcome = "error" /\ mret.text = MustAuthorizeText
    /\ sent = << >>
    /\ issued = {} /\ token = ""
    /\ handshake.respond = "transport error"

\* C16: the freelist holds at most one entry per ContractId; AddBlob on a contract
\* already present adds its Amount to that entry and leaves the rest, and on a
\* contract not present appends the blob.
C16_OneBlobPerContract ==
    /\ \A i, j \in 1..Len(freelist) :
          freelist[i].ContractId = freelist[j].ContractId => i = j
    /\ (ret.op = "AddBlobs" /\ Len(ret.blobs) = 1) =>
          LET b == ret.blobs[1]
              pre == ret.pre
          IN IF \E i \in 1..Len(pre) : pre[i].ContractId = b.ContractId
             THEN /\ Len(freelist) = Len(pre)
                  /\ \A i \in 1..Len(pre) :
                        freelist[i] = IF pre[i].ContractId = b.ContractId
                                      THEN [pre[i] EXCEPT !.Amount = @ + b.Amount]
                                      ELSE pre[i]
             ELSE freelist = pre \o <<b>>

\* AddBlob met its contract in a freelist of several entries.
C16_Witness ==
    /\ ret.op = "AddBlobs" /\ Len(ret.blobs) = 1
    /\ Len(ret.pre) >= 2
    /\ \E i \in 1..Len(ret.pre) : ret.pre[i].ContractId = ret.blobs[1].ContractId

\* C17: MarkProvidersOffline(ids, until) leaves each id of ids with the later of
\* its previous release time, if it had one, and until; the entries of the other
\* providers and the freelist are as they were.
C17_MarkKeepsLatest ==
    ret.op = "MarkProvidersOffline" =>
        LET ids == {ret.pvdrIds[i] : i \in 1..Len(ret.pvdrIds)}
            old == ret.offBefore
        IN /\ DOMAIN offlinePvdrs = DOMAIN old \cup ids
           /\ \A p \in ids :
                 offlinePvdrs[p] = IF p \in DOMAIN old /\ old[p] > ret.until
                                   THEN old[p] ELSE ret.until
           /\ \A p \in DOMAIN old \ ids : offlinePvdrs[p] = old[p]
           /\ freelist = ret.pre

\* A provider offline for longer was marked with an earlier time, beside one that
\* was not marked, and blobs in the freelist.
C17_Witness ==
    /\ ret.op = "MarkProvidersOffline"
    /\ \E i \in 1..Len(ret.pvdrIds) :
          /\ ret.pvdrIds[i] \in DOMAIN ret.offBefore
          /\ ret.offBefore[ret.pvdrIds[i]] > ret.until
    /\ \E p \in DOMAIN ret.offBefore : \A i \in 1..Len(ret.pvdrIds) : ret.pvdrIds[i] # p
    /\ Len(freelist) > 0

\* C18: FindStorage consults updateFn exactly when the freelist is empty or the
\* cache is older than the update frequency, and otherwise leaves the cache as it
\* is; it then forgets the offline entries whose release time is past, and only
\* then chooses, so that no returned blob is of a provider still in the map.
C18_RefreshPolicy ==
    ret.op = "FindStorage" =>
        /\ ret.called <=> (Len(ret.pre) = 0 \/ now - ret.lastBefore > UpdateFreq)
        /\ ~ret.called => (ret.cached = ret.pre /\ lastCacheUpdate = ret.lastBefore)
        /\ DOMAIN offlinePvdrs = {p \in DOMAIN ret.offBefore : ~(ret.offBefore[p] < now)}
        /\ \A p \in DOMAIN offlinePvdrs : offlinePvdrs[p] = ret.offBefore[p]
        /\ \A i \in 1..Len(ret.blobs) : ret.blobs[i].ProviderId \notin DOMAIN offlinePvdrs

\* On a cache still fresh and not empty FindStorage, without asking updateFn,
\* returned a blob of a provider whose offline entry had just run out.
C18_Witness ==
    /\ ret.op = "FindStorage"
    /\ ~ret.called
    /\ Len(ret.pre) > 0
    /\ \E i \in 1..Len(ret.blobs) :
          /\ ret.blobs[i].ProviderId \in DOMAIN ret.offBefore
          /\ ret.offBefore[ret.blobs[i].ProviderId] < now

\* C19: when updateFn succeeds in a refresh, the freelist the refresh leaves is a
\* permutation of the blobs updateFn returned, whatever it held before, and
\* lastCacheUpdate is the current time.
C19_RefreshReplaces ==
    (ret.op \in {"FindStorage", "AvailableStorage"} /\ ret.called /\ ~ret.updErr) =>
      LET AfterRefresh == IF ret.op = "FindStorage" THEN ret.cached ELSE freelist
      IN
        /\ ret.refreshed
        /\ Len(AfterRefresh) = Len(ret.fetched)
        /\ \A b \in {ret.fetched[i] : i \in 1..Len(ret.fetched)}
                  \cup {AfterRefresh[i] : i \in 1..Len(AfterRefresh)} :
              Cardinality({i \in 1..Len(AfterRefresh) : AfterRefresh[i] = b})
                = Cardinality({i \in 1..Len(ret.fetched) : ret.fetched[i] = b})
        /\ lastCacheUpdate = now

\* A refresh succeeded on a freelist that FindStorage had drawn from and that
\* held what updateFn does not return, and the shuffle changed the order.
C19_Witness ==
    /\ ret.op = "AvailableStorage" /\ ~ret.updErr
    /\ Len(ret.fetched) > 1
    /\ freelist # ret.fetched
    /\ \E i \in 1..Len(ret.pre) : \A j \in 1..Len(ret.fetched) :
          ret.pre[i].ContractId # ret.fetched[j].ContractId
    /\ \E i \in 1..Len(ret.pre), j \in 1..Len(ret.fetched) :
          /\ ret.pre[i].ContractId = ret.fetched[j].ContractId
          /\ ret.pre[i].Amount < ret.fetched[j].Amount
    /\ ret.lastBefore # now

\* C20: AvailableStorage always consults updateFn first, so that when updateFn
\* succeeds the value returned is the sum of the Amounts updateFn gave; in every
\* case it returns the sum of Amount over the whole freelist as the refresh left
\* it, the blobs of offline providers included, and the offline map is as before.
C20_AvailableStorage ==
    ret.op = "AvailableStorage" =>
        /\ ret.called
        /\ ~ret.updErr => (ret.refreshed /\ ret.amt = SumAmount(ret.fetched))
        /\ ret.updErr => freelist = ret.pre
        /\ ret.amt = SumAmount(SelectSeq(freelist, LAMBDA b : b.ProviderId \in DOMAIN offlinePvdrs))
                      + SumAmount(SelectSeq(freelist, LAMBDA b : b.ProviderId \notin DOMAIN offlinePvdrs))
        /\ offlinePvdrs = ret.offBefore

\* AvailableStorage refreshed a cache that was still fresh and counted the blob of
\* a provider that is offline.
C20_Witness ==
    /\ ret.op = "AvailableStorage" /\ ~ret.updErr
    /\ ret.lastBefore = now
    /\ ret.pre # freelist
    /\ \E i \in 1..Len(freelist) :
          /\ freelist[i].ProviderId \in DOMAIN offlinePvdrs
          /\ offlinePvdrs[freelist[i].ProviderId] > now
    /\ ret.amt = SumAmount(freelist) /\ ret.amt > 0

\* C21: after a successful FindStorage no freelist entry holds less than
\* kMinBlobSize; a failed FindStorage leaves every entry the refresh step left,
\* in its place.
C21_PruneOnSuccessOnly ==
    /\ FindStorageSucceeded =>
          \A i \in 1..Len(freelist) : ~(freelist[i].Amount < kMinBlobSize)
    /\ FindStorageFailed =>
          /\ Len(freelist) = Len(ret.cached)
          /\ \A i \in 1..Len(ret.cached) : freelist[i].ContractId = ret.cached[i].ContractId

\* A successful FindStorage drew an entry down below kMinBlobSize and removed it.
C21_Witness ==
    /\ FindStorageSucceeded
    /\ Len(freelist) < Len(ret.cached)
    /\ Len(freelist) > 0

\* C31: when updateFn returns an error the refresh changes nothing: the freelist
\* the call goes on with and lastCacheUpdate are what they were before the call.
\* FindStorage chooses from the old freelist, and since it asked updateFn only
\* because the cache was empty or stale, and neither has changed, a FindStorage
\* made next asks again; AvailableStorage sums the old freelist and leaves the
\* refresh policy answering as it did before the call.
C31_FailedRefreshChangesNothing ==
    (ret.op \in {"FindStorage", "AvailableStorage"} /\ ret.called /\ ret.updErr) =>
        /\ ~ret.refreshed
        /\ lastCacheUpdate = ret.lastBefore
        /\ ret.op = "AvailableStorage" =>
              /\ freelist = ret.pre /\ ret.amt = SumAmount(ret.pre)
              /\ wantsUpdate(freelist, lastCacheUpdate, now)
                    <=> wantsUpdate(ret.pre, ret.lastBefore, now)
        /\ ret.op = "FindStorage" =>
              /\ ret.cached = ret.pre
              /\ wantsUpdate(freelist, lastCacheUpdate, now)
              /\ \E startIdx \in 0..Len(ret.pre) :
                    LET r == findStorage(ret.pre, offlinePvdrs, ret.nblobs,
                                         ret.blobSize, startIdx)
                    IN (startIdx < Len(ret.pre) \/ startIdx = 0)
                       /\ freelist = r.fl /\ ret.blobs = r.blobs /\ ret.err = r.err

\* The cache, refreshed once before, had gone stale with blobs in it; updateFn
\* failed, and FindStorage handed out a blob of the old freelist, the time of
\* the last refresh staying in the past.
C31_Witness ==
    /\ ret.op = "FindStorage" /\ ret.called /\ ret.updErr
    /\ Len(ret.pre) > 0
    /\ ~ret.err /\ Len(ret.blobs) > 0
    /\ freelist # ret.pre
    /\ ret.lastBefore # ZeroTime
    /\ lastCacheUpdate < now

\* C31 as stated: after any refresh that failed, FindStorage, were it called
\* next, would consult updateFn again.
C31_NextCallRefreshesAgain ==
    (ret.op \in {"FindStorage", "AvailableStorage"} /\ ret.called /\ ret.updErr) =>
        /\ lastCacheUpdate = ret.lastBefore
        /\ wantsUpdate(freelist, lastCacheUpdate, now)

(***************************************************************************)
(* Concurrent callers: properties.                                         *)
(***************************************************************************)

\* C15: the public operations exclude one another, each writes back on the very
\* fields it read (so the calls take effect one at a time, in the order of their
\* locking), and, absent a refresh, what FindStorage calls have handed out for a
\* contract and what the freelist still holds for it never exceed what the
\* freelist held at first plus what AddBlobs returned.
C15_AtomicOperations ==
    /\ LET inside == {t \in Threads : threads[t].pc \in {"read", "write", "unlock"}}
       IN /\ Cardinality(inside) <= 1
          /\ \A t \in inside : mu = t
    /\ \A t \in Threads : threads[t].pc = "write" => threads[t].seen = Shared
    /\ ~ledger.refreshed =>
         \A c \in DOMAIN ledger.base :
            /\ AmountOf(freelist, c) >= 0
            /\ ledger.handed[c] + AmountOf(freelist, c) <= ledger.base[c] + ledger.returned[c]

\* One caller waits for the mutex while another, inside FindStorage, is about to
\* write, blobs having been handed out before and none of it by a refresh.
C15_Witness ==
    /\ mu = 2
    /\ threads[2].pc = "write" /\ threads[2].call.op = "FindStorage"
    /\ Len(threads[2].next.blobs) > 0
    /\ threads[1].pc = "lock" /\ threads[1].call.op = "FindStorage"
    /\ ~ledger.refreshed
    /\ \E c \in ContractIds : ledger.handed[c] > 0

(***************************************************************************)
(* Renter.Download: properties.                                            *)
(***************************************************************************)

\* C24: a download of a file that is not a folder takes, with no version number,
\* the version of the greatest Num, and with the number n the version whose Num
\* is n; it returns an error when no version has that Num and when the file has
\* no versions.
C24_VersionSelection ==
    (dd.pc = "done" /\ ~dd.file.IsDir) =>
        LET Nums == {dd.file.Versions[i].Num : i \in 1..Len(dd.file.Versions)}
        IN /\ dd.err = "" =>
                /\ Len(dd.events) = 1 /\ dd.events[1].do = "download"
                /\ dd.events[1].num \in Nums
                /\ dd.versionNum = << >> => \A n \in Nums : n <= dd.events[1].num
                /\ dd.versionNum # << >> => dd.events[1].num = dd.versionNum[1]
           /\ Nums = {} => dd.err \in {"GetFile", "user.Current", "File has no versions"}
           /\ (Nums # {} /\ dd.versionNum # << >> /\ dd.versionNum[1] \notin Nums) =>
                dd.err \in {"GetFile", "user.Current", "Cannot find version"}

\* Version 2 was asked for and downloaded from a file whose versions are 2 and 3.
C24_Witness ==
    /\ dd.pc = "done" /\ ~dd.file.IsDir /\ dd.err = ""
    /\ dd.versionNum = <<2>>
    /\ Len(dd.file.Versions) = 2 /\ dd.file.Versions[1].Num = 2
    /\ dd.events[1].num = 2

\* C25: when a child of a folder fails, no later child is gone into, the error
\* names the child that failed, and the children downloaded before it are on disk.
C25_AbortReportsChild ==
    (dd.pc = "done" /\ dd.file.IsDir /\ dd.err # "" /\ Len(dd.events) > 0) =>
        LET child == dd.children[dd.i]
        IN /\ Len(dd.events) = dd.i
           /\ dd.names # << >>
           /\ dd.names[Len(dd.names)] = child.Name[Len(child.Name)]
           /\ \A j \in 1..Len(dd.events) :
                dd.events[j].do = "download" => dd.events[j].path \in dd.files

\* C26: in a folder download every mkdir comes before every file download.
C26_DirectoriesFirst ==
    \A i, j \in 1..Len(dd.events) :
        (dd.events[i].do = "mkdir" /\ dd.events[j].do = "download") => i < j

(***************************************************************************)
(* Metaserver, POST /renters: properties.                                  *)
(***************************************************************************)
\* C33: a POST /renters with a body that parses and a valid RSA public key,
\* the insert succeeding, stores the renter under ID = fingerprint(PublicKey),
\* whatever ID the request carried, and is answered 201 with that record; when
\* the body does not parse, the key is missing or invalid, or the insert fails,
\* the answer is 400 with an error body and nothing else, and the table is as it
\* was.
C33_RenterRegistration ==
    ms.pc = "serving" /\ ms.status # 0 =>
      LET key == ms.req.renter.PublicKey
          record == RenterInfo(fingerprintKey(key), key)
          valid == ms.req.parses /\ key # "" /\ parsePublicKey(key) = ""
          inserted == valid /\ ms.db # ms.pre
      IN IF inserted
         THEN /\ ms.db = ms.pre \cup {record}
              /\ ms.status = 201
              /\ ms.body = <<[kind |-> "renter", renter |-> record]>>
         ELSE /\ ms.db = ms.pre
              /\ ms.status = 400
              /\ Len(ms.body) = 1 /\ ms.body[1].kind = "error"

====
